---- MODULE Spec2Model ----
(***************************************************************************)
(* StartDB storage core: memory and disk-snapshot engines, the write-ahead *)
(* log, the transaction manager and the WAL-wrapped storage.               *)
(*                                                                         *)
(* Keys and values are byte strings, modelled as sequences of 0..255.      *)
(* A nil []byte is the sentinel Nil; the empty non-nil slice is << >>.     *)
(***************************************************************************)
EXTENDS Integers, Sequences, FiniteSets, TLC

VARIABLES
    kind,       \* "memory" | "disk": which engine backs the storage
    up,         \* TRUE while a storage instance is live in the process
    data,       \* engine.data: the in-memory map (function key -> value)
    closed,     \* engine.closed
    snap,       \* the file at the data path (disk engine)
    tmp,        \* the sibling file <data path>.tmp
    pc,         \* position of the operation in flight
    wal,        \* the WAL file: sequence of framed, JSON-encoded records
    walFile,    \* WAL.file != nil (an append handle is held)
    walClosed,  \* WAL.closed
    txs,        \* transactions issued by the live manager, by numeric id
    registry,   \* TransactionManager.transactions: ids still registered
    nextID,     \* TransactionManager.nextID
    res,        \* outcome of the last completed step of a call
    held,       \* the byte slices the caller holds, and what each shares
    th,         \* the goroutines calling one storage at once: where each is
    mu,         \* who holds WAL.mutex and TransactionManager.mu (0: nobody)
    idx,        \* the IndexManager: its registry of named indexes
    g           \* history bookkeeping used to state the properties

vars == <<kind, up, data, closed, snap, tmp, pc, wal, walFile, walClosed,
          txs, registry, nextID, res, held, th, mu, idx, g>>

engineVars == <<kind, up, data, closed, snap, tmp>>
walVars == <<wal, walFile, walClosed>>
txVars == <<txs, registry, nextID>>
callerVars == <<held, th, mu, idx>>

-----------------------------------------------------------------------------
(* Bounds of the exploration *)

\* longest WAL file explored, in records
MaxWal == 2
\* most transactions one manager issues
MaxTx == 1
\* most mutations the bare-engine specification performs per run
MaxOps == 3
\* byte slices one caller holds at once
MaxHeld == 2
\* calls that change an index, per run of the index specification
MaxIdxOps == 5
\* goroutines that call one storage at the same time, one call each
MaxThreads == 2

-----------------------------------------------------------------------------
(* Byte strings *)

Nil == <<-1>>
EmptyMap == [k \in {} |-> << >>]

\* the inputs the operations are exercised with
KeyA == <<97>>
KeyBad == <<255>>          \* a Go string that is not valid UTF-8
EmptyKey == << >>
InKeys == {EmptyKey, KeyA, KeyBad}
InValues == {Nil, << >>, <<49>>}

RECURSIVE LexLess(_, _)
LexLess(a, b) ==
    IF a = << >> THEN b # << >>
    ELSE IF b = << >> THEN FALSE
    ELSE IF Head(a) # Head(b) THEN Head(a) < Head(b)
    ELSE LexLess(Tail(a), Tail(b))

RECURSIVE SortKeys(_)
SortKeys(S) ==
    IF S = {} THEN << >>
    ELSE LET m == CHOOSE x \in S : \A y \in S : x = y \/ LexLess(x, y)
         IN <<m>> \o SortKeys(S \ {m})

Cont(s, i) == i <= Len(s) /\ s[i] >= 128 /\ s[i] <= 191

\* utf8.DecodeRuneInString at the head of s: the number of bytes of a valid
\* encoding, or 0 when the head byte starts no valid rune (RuneError, size 1)
RuneSize(s) ==
    LET b == s[1] IN
    IF b < 128 THEN 1
    ELSE IF b >= 194 /\ b <= 223 THEN (IF Cont(s, 2) THEN 2 ELSE 0)
    ELSE IF b >= 224 /\ b <= 239 THEN
        (IF /\ Cont(s, 2) /\ Cont(s, 3)
            /\ (b = 224 => s[2] >= 160)
            /\ (b = 237 => s[2] <= 159)
         THEN 3 ELSE 0)
    ELSE IF b >= 240 /\ b <= 244 THEN
        (IF /\ Cont(s, 2) /\ Cont(s, 3) /\ Cont(s, 4)
            /\ (b = 240 => s[2] >= 144)
            /\ (b = 244 => s[2] <= 143)
         THEN 4 ELSE 0)
    ELSE 0

\* encoding/json writes a Go string coerced to valid UTF-8: every byte that
\* starts no valid rune becomes U+FFFD (EF BF BD); decoding returns the
\* coerced bytes
RECURSIVE JSONString(_)
JSONString(s) ==
    IF s = << >> THEN << >>
    ELSE LET n == RuneSize(s) IN
         IF n = 0 THEN <<239, 191, 189>> \o JSONString(Tail(s))
         ELSE SubSeq(s, 1, n) \o JSONString(SubSeq(s, n + 1, Len(s)))

MapPut(m, k, v) == [x \in DOMAIN m \cup {k} |-> IF x = k THEN v ELSE m[x]]
MapDel(m, k) == [x \in DOMAIN m \ {k} |-> m[x]]

-----------------------------------------------------------------------------
(* Files *)

NoFile == [st |-> "absent", entries |-> << >>]
\* a file created or truncated by os.WriteFile with nothing written yet
EmptyFile == [st |-> "empty", entries |-> << >>]
\* a file holding a proper prefix of the document being written
PartialFile == [st |-> "partial", entries |-> << >>]

\* json.Marshal(DiskData{Data: d.data}): the map's entries in the order of
\* the original key strings, each key written through JSONString; a value is
\* written in base64, which decodes to the same bytes
MarshalDisk(d) ==
    LET ks == SortKeys(DOMAIN d)
    IN [st |-> "full",
        entries |-> [i \in 1..Len(ks) |-> <<JSONString(ks[i]), d[ks[i]]>>]]

\* json.Unmarshal into map[string][]byte: a repeated key keeps the last entry
RECURSIVE UnmarshalDisk(_)
UnmarshalDisk(es) ==
    IF es = << >> THEN EmptyMap
    ELSE LET n == Len(es)
         IN MapPut(UnmarshalDisk(SubSeq(es, 1, n - 1)), es[n][1], es[n][2])

\* DiskEngine.load
load(f) ==
    IF f.st = "absent" THEN [err |-> "ok", data |-> EmptyMap]
    ELSE IF f.st = "empty" THEN [err |-> "ok", data |-> EmptyMap]
    ELSE IF f.st = "partial" THEN [err |-> "corrupted data file", data |-> EmptyMap]
    ELSE [err |-> "ok", data |-> UnmarshalDisk(f.entries)]

-----------------------------------------------------------------------------
(* Engine operations on (data, closed), shared by the memory and the disk   *)
(* engine; the disk engine adds save() after a mutation.                     *)

Get(d, cl, key) ==
    IF cl THEN [err |-> "StorageClosed", val |-> Nil]
    ELSE IF key = EmptyKey THEN [err |-> "InvalidKey", val |-> Nil]
    ELSE IF key \notin DOMAIN d THEN [err |-> "KeyNotFound", val |-> Nil]
    ELSE [err |-> "ok", val |-> d[key]]

Exists(d, cl, key) ==
    IF cl THEN [err |-> "StorageClosed", val |-> FALSE]
    ELSE IF key = EmptyKey THEN [err |-> "InvalidKey", val |-> FALSE]
    ELSE [err |-> "ok", val |-> key \in DOMAIN d]

Keys(d, cl) ==
    IF cl THEN [err |-> "StorageClosed", val |-> {}]
    ELSE [err |-> "ok", val |-> DOMAIN d]

\* a Put that looks at its arguments before it looks at closed
PutCheckArgsFirst(cl, key, value) ==
    IF key = EmptyKey THEN "InvalidKey"
    ELSE IF value = Nil THEN "InvalidValue"
    ELSE IF cl THEN "StorageClosed"
    ELSE "ok"

\* a Put that takes the empty slice for a missing value
PutCheckNoEmpty(cl, key, value) ==
    IF cl THEN "StorageClosed"
    ELSE IF key = EmptyKey THEN "InvalidKey"
    ELSE IF value = Nil \/ value = << >> THEN "InvalidValue"
    ELSE "ok"

\* the checks of Put before the lock is taken
PutCheck(cl, key, value) ==
    IF cl THEN "StorageClosed"
    ELSE IF key = EmptyKey THEN "InvalidKey"
    ELSE IF value = Nil THEN "InvalidValue"
    ELSE "ok"

\* a Put that keeps the value a key already has
PutApplyIfAbsent(d, key, value) ==
    IF key \in DOMAIN d THEN d ELSE MapPut(d, key, value)

\* the map after Put's assignment of a copy of value
PutApply(d, key, value) == MapPut(d, key, value)

DeleteCheck(d, cl, key) ==
    IF cl THEN "StorageClosed"
    ELSE IF key = EmptyKey THEN "InvalidKey"
    ELSE IF key \notin DOMAIN d THEN "KeyNotFound"
    ELSE "ok"

DeleteApply(d, key) == MapDel(d, key)

\* a save() that writes the document straight to the data path
tempFileInPlace == "snap"

\* save() writes the document to this file and then renames it over the
\* data path
tempFile == "tmp"

-----------------------------------------------------------------------------
(* The write-ahead log: records, checksum, encoding, replay *)

LogEntryPut == 1
LogEntryDelete == 2
LogEntryCommit == 3

\* a uint32 is kept as two 16-bit halves <<high, low>>; arithmetic wraps
Half == 256 * 256
U32(n) == <<(n \div Half) % Half, n % Half>>
U32Add(a, b) ==
    LET lo == a[2] + b[2]
        hi == a[1] + b[1] + (lo \div Half)
    IN <<hi % Half, lo % Half>>

RECURSIVE SumBytes(_, _)
SumBytes(acc, bs) ==
    IF bs = << >> THEN acc ELSE SumBytes(U32Add(acc, U32(Head(bs))), Tail(bs))

\* time.Now().UnixNano() as four 16-bit parts, most significant first; the
\* low word of the value used here is close to wrapping
Timestamps == {<<6039, 33571, 65535, 65500>>}
\* uint32(entry.Timestamp & 0xFFFFFFFF)
Low32(ts) == <<ts[3], ts[4]>>

Bytes(value) == IF value = Nil THEN << >> ELSE value

\* WAL.calculateChecksum
calculateChecksum(entry) ==
    U32Add(SumBytes(SumBytes(U32(entry.type), entry.key), Bytes(entry.value)),
           Low32(entry.ts))

LogEntry(type, key, value, ts) ==
    [type |-> type, key |-> key, value |-> value, ts |-> ts, checksum |-> U32(0)]

\* the `json:"value,omitempty"` field: a nil and an empty slice are both left
\* out of the document, and a missing field decodes to nil
OmitEmpty(value) == IF value = Nil \/ value = << >> THEN Nil ELSE value

\* logEntry's frame: the checksum is taken over the entry as given, then the
\* entry goes through json.Marshal; readEntry's json.Unmarshal returns the
\* fields as written
Marshal(entry) ==
    [type |-> entry.type,
     key |-> JSONString(entry.key),
     value |-> OmitEmpty(entry.value),
     ts |-> entry.ts,
     checksum |-> calculateChecksum(entry)]

\* WAL.verifyChecksum
verifyChecksum(entry) == entry.checksum = calculateChecksum(entry)

\* WAL.applyEntry on the engine map
applyEntry(d, entry) ==
    IF entry.type = LogEntryPut THEN
        LET e == PutCheck(FALSE, entry.key, entry.value) IN
        IF e = "ok" THEN [err |-> "ok", data |-> PutApply(d, entry.key, entry.value)]
        ELSE [err |-> e, data |-> d]
    ELSE IF entry.type = LogEntryDelete THEN
        LET e == DeleteCheck(d, FALSE, entry.key) IN
        IF e = "ok" THEN [err |-> "ok", data |-> DeleteApply(d, entry.key)]
        ELSE [err |-> e, data |-> d]
    ELSE IF entry.type = LogEntryCommit THEN [err |-> "ok", data |-> d]
    ELSE [err |-> "unknown log entry type", data |-> d]

\* the loop of WAL.Replay over the frames of the file from offset 0: the
\* outcome, the engine map it leaves, and whether the engine was written
RECURSIVE ReplayLoop(_, _, _)
ReplayLoop(d, frames, wrote) ==
    IF frames = << >> THEN [err |-> "ok", data |-> d, wrote |-> wrote]
    ELSE LET entry == Head(frames) IN
         IF ~verifyChecksum(entry)
         THEN [err |-> "Corruption", data |-> d, wrote |-> wrote]
         ELSE LET r == applyEntry(d, entry) IN
              IF r.err # "ok" THEN [err |-> r.err, data |-> d, wrote |-> wrote]
              ELSE ReplayLoop(r.data, Tail(frames),
                              wrote \/ entry.type # LogEntryCommit)

-----------------------------------------------------------------------------
(* Transactions *)

NewTx == [readSet |-> EmptyMap, writeSet |-> EmptyMap, deleted |-> {},
          committed |-> FALSE, aborted |-> FALSE]

\* a Transaction that never looks at its committed and aborted flags
TxStateIgnored(tx) == "ok"

\* the state checks every Transaction method starts with
TxState(tx) ==
    IF tx.aborted THEN "TransactionAborted"
    ELSE IF tx.committed THEN "TransactionAlreadyCommitted"
    ELSE "ok"

\* Transaction.Get: the read set first, then the write set, whose value is
\* copied into the read set
TxGetResult(tx, key) ==
    IF TxState(tx) # "ok" THEN [err |-> TxState(tx), val |-> Nil, tx |-> tx]
    ELSE IF key \in DOMAIN tx.readSet
    THEN [err |-> "ok", val |-> tx.readSet[key], tx |-> tx]
    ELSE IF key \in DOMAIN tx.writeSet
    THEN [err |-> "ok", val |-> tx.writeSet[key],
          tx |-> [tx EXCEPT !.readSet = MapPut(@, key, tx.writeSet[key])]]
    ELSE [err |-> "KeyNotFound", val |-> Nil, tx |-> tx]

\* Transaction.Exists
TxExistsResult(tx, key) ==
    IF TxState(tx) # "ok" THEN [err |-> TxState(tx), val |-> FALSE, tx |-> tx]
    ELSE [err |-> "ok", tx |-> tx,
          val |-> key \notin tx.deleted
                  /\ (key \in DOMAIN tx.writeSet \/ key \in DOMAIN tx.readSet)]

\* Transaction.Keys
TxKeysResult(tx) ==
    IF TxState(tx) # "ok" THEN [err |-> TxState(tx), val |-> {}, tx |-> tx]
    ELSE [err |-> "ok", tx |-> tx,
          val |-> {k \in DOMAIN tx.writeSet \cup DOMAIN tx.readSet :
                      k \notin tx.deleted}]

\* a Transaction.Put that leaves the key among the deleted ones
TxPutKeepDeleted(tx, key, value) ==
    IF TxState(tx) # "ok" THEN [err |-> TxState(tx), tx |-> tx]
    ELSE IF key = EmptyKey THEN [err |-> "InvalidKey", tx |-> tx]
    ELSE IF value = Nil THEN [err |-> "InvalidValue", tx |-> tx]
    ELSE [err |-> "ok", tx |-> [tx EXCEPT !.writeSet = MapPut(@, key, value)]]

\* Transaction.Put
TxPutResult(tx, key, value) ==
    IF TxState(tx) # "ok" THEN [err |-> TxState(tx), tx |-> tx]
    ELSE IF key = EmptyKey THEN [err |-> "InvalidKey", tx |-> tx]
    ELSE IF value = Nil THEN [err |-> "InvalidValue", tx |-> tx]
    ELSE [err |-> "ok",
          tx |-> [tx EXCEPT !.writeSet = MapPut(@, key, value),
                            !.deleted = @ \ {key}]]

\* Transaction.Delete
TxDeleteResult(tx, key) ==
    IF TxState(tx) # "ok" THEN [err |-> TxState(tx), tx |-> tx]
    ELSE IF key = EmptyKey THEN [err |-> "InvalidKey", tx |-> tx]
    ELSE [err |-> "ok",
          tx |-> [tx EXCEPT !.deleted = @ \cup {key},
                            !.writeSet = MapDel(@, key)]]

\* Transaction.GetWriteSet: the staged writes whose key is not deleted
GetWriteSet(tx) ==
    [k \in {x \in DOMAIN tx.writeSet : x \notin tx.deleted} |-> tx.writeSet[k]]

\* a GetDeletedSet that hands out no staged delete
GetDeletedSetNone(tx) == {}

\* Transaction.GetDeletedSet
GetDeletedSet(tx) == tx.deleted

\* TransactionManager.CommitTransaction: the error it returns for id
ManagerCommitCheck(id) ==
    IF id \notin registry THEN "TransactionNotFound"
    ELSE IF txs[id].aborted THEN "TransactionAborted"
    ELSE IF txs[id].committed THEN "TransactionAlreadyCommitted"
    ELSE "ok"

\* an AbortTransaction that does not look the id up in the registry
ManagerAbortCheckUnregistered(id) ==
    IF txs[id].committed THEN "TransactionAlreadyCommitted" ELSE "ok"

\* TransactionManager.AbortTransaction: the error it returns for id
ManagerAbortCheck(id) ==
    IF id \notin registry THEN "TransactionNotFound"
    ELSE IF txs[id].committed THEN "TransactionAlreadyCommitted"
    ELSE "ok"

\* the engine's CommitTransaction, step 4 of the commit: the staged writes
\* and then the staged deletes are applied to the engine map
EngineCommitApply(d, tx) ==
    LET ws == GetWriteSet(tx)
        withPuts == [k \in DOMAIN d \cup DOMAIN ws |->
                        IF k \in DOMAIN ws THEN ws[k] ELSE d[k]]
    IN [k \in DOMAIN withPuts \ GetDeletedSet(tx) |-> withPuts[k]]

-----------------------------------------------------------------------------
(* Shared shapes *)

Idle == [at |-> "idle", op |-> "", k |-> << >>, v |-> Nil, t |-> 0,
         puts |-> EmptyMap, dels |-> {}]
At(at, op, k, v) ==
    [at |-> at, op |-> op, k |-> k, v |-> v, t |-> 0, puts |-> EmptyMap, dels |-> {}]
Res(op, err, k, val) ==
    [op |-> op, err |-> err, k |-> k, val |-> val, t |-> 0, stage |-> ""]
\* the result of a WAL-storage call: stage names the step that decided it
ResAt(op, err, k, val, stage) ==
    [op |-> op, err |-> err, k |-> k, val |-> val, t |-> 0, stage |-> stage]
\* the result of a call on transaction t
ResTx(op, err, t, stage) ==
    [op |-> op, err |-> err, k |-> << >>, val |-> Nil, t |-> t, stage |-> stage]

NoWal == /\ wal = << >> /\ walFile = FALSE /\ walClosed = FALSE
NoTx == /\ txs = << >> /\ registry = {} /\ nextID = 0
\* NewIndexManager: no index is registered
NoIndexes == [indexes |-> << >>, panicked |-> FALSE, intBits |-> 64]
NoCallers ==
    /\ held = << >> /\ th = << >> /\ mu = [wal |-> 0, tm |-> 0]
    /\ idx = NoIndexes

-----------------------------------------------------------------------------
(* The bare engine: one memory or disk engine used directly, with a crash   *)
(* possible at every step of save() and a reopen on the same path.          *)

\* g.fresh: the live engine is the first one opened on the path;
\* g.hist: the successful mutations of that first engine, in order;
\* g.saved, g.nsaved: the engine map when the last successful disk mutation
\*   returned, and whether there was one;
\* g.visible, g.clean: the map just before Close, and whether the engine was
\*   shut by Close rather than by a crash
InitEngine ==
    /\ kind \in {"memory", "disk"}
    /\ up = TRUE
    /\ data = EmptyMap
    /\ closed = FALSE
    /\ snap = NoFile
    /\ tmp = NoFile
    /\ pc = Idle
    /\ NoWal
    /\ NoTx
    /\ NoCallers
    /\ res = Res("open", "ok", << >>, Nil)
    /\ g = [fresh |-> TRUE, hist |-> << >>, saved |-> EmptyMap, nsaved |-> FALSE,
            visible |-> EmptyMap, clean |-> FALSE]

Mutation(op, k, v) == [op |-> op, k |-> k, v |-> v]
Record(op, k, v) ==
    IF g.fresh THEN [g EXCEPT !.hist = Append(@, Mutation(op, k, v))] ELSE g
Room == g.fresh => Len(g.hist) < MaxOps

\* MemoryEngine.Put, and DiskEngine.Put up to its call of save()
EPut(key, value) ==
    /\ up /\ pc.at = "idle" /\ Room
    /\ LET e == PutCheck(closed, key, value) IN
       IF e # "ok"
       THEN /\ res' = Res("put", e, key, value)
            /\ UNCHANGED <<data, pc, g>>
       ELSE /\ data' = PutApply(data, key, value)
            /\ IF kind = "memory"
               THEN /\ res' = Res("put", "ok", key, value)
                    /\ g' = Record("put", key, value)
                    /\ pc' = pc
               ELSE /\ pc' = At("save_write", "put", key, value)
                    /\ UNCHANGED <<res, g>>
    /\ UNCHANGED <<callerVars, kind, up, closed, snap, tmp, walVars, txVars>>

\* MemoryEngine.Delete, and DiskEngine.Delete up to its call of save()
EDelete(key) ==
    /\ up /\ pc.at = "idle" /\ Room
    /\ LET e == DeleteCheck(data, closed, key) IN
       IF e # "ok"
       THEN /\ res' = Res("delete", e, key, Nil)
            /\ UNCHANGED <<data, pc, g>>
       ELSE /\ data' = DeleteApply(data, key)
            /\ IF kind = "memory"
               THEN /\ res' = Res("delete", "ok", key, Nil)
                    /\ g' = Record("delete", key, Nil)
                    /\ pc' = pc
               ELSE /\ pc' = At("save_write", "delete", key, Nil)
                    /\ UNCHANGED <<res, g>>
    /\ UNCHANGED <<callerVars, kind, up, closed, snap, tmp, walVars, txVars>>

\* save(): os.WriteFile has created or truncated the temp file and is writing
SaveBegin ==
    /\ up /\ pc.at = "save_write"
    /\ IF tempFile = "tmp"
       THEN tmp' = PartialFile /\ snap' = snap
       ELSE snap' = PartialFile /\ tmp' = tmp
    /\ pc' = [pc EXCEPT !.at = "save_writing"]
    /\ UNCHANGED <<callerVars, kind, up, data, closed, res, g, walVars, txVars>>

\* save(): os.WriteFile has written the whole document
SaveWritten ==
    /\ up /\ pc.at = "save_writing"
    /\ IF tempFile = "tmp"
       THEN tmp' = MarshalDisk(data) /\ snap' = snap
       ELSE snap' = MarshalDisk(data) /\ tmp' = tmp
    /\ pc' = [pc EXCEPT !.at = "save_rename"]
    /\ UNCHANGED <<callerVars, kind, up, data, closed, res, g, walVars, txVars>>

\* save(): os.Rename(tempFile, d.filePath), and the mutation returns nil
SaveRename ==
    /\ up /\ pc.at = "save_rename"
    /\ IF tempFile = "tmp"
       THEN snap' = tmp /\ tmp' = NoFile
       ELSE UNCHANGED <<snap, tmp>>
    /\ pc' = Idle
    /\ res' = Res(pc.op, "ok", pc.k, pc.v)
    /\ g' = [Record(pc.op, pc.k, pc.v) EXCEPT !.saved = data, !.nsaved = TRUE]
    /\ UNCHANGED <<callerVars, kind, up, data, closed, walVars, txVars>>

\* MemoryEngine.Close and DiskEngine.Close; the disk engine sets closed and
\* then calls save(), which returns ErrStorageClosed because closed is set
EClose ==
    /\ up /\ pc.at = "idle"
    /\ IF closed
       THEN /\ res' = Res("close", "ok", << >>, Nil)
            /\ UNCHANGED <<data, closed, g>>
       ELSE /\ closed' = TRUE
            /\ g' = [g EXCEPT !.visible = data, !.clean = TRUE]
            /\ IF kind = "memory"
               THEN data' = EmptyMap /\ res' = Res("close", "ok", << >>, Nil)
               ELSE data' = data /\ res' = Res("close", "StorageClosed", << >>, Nil)
    /\ UNCHANGED <<callerVars, kind, up, snap, tmp, pc, walVars, txVars>>

\* the process dies; the files stay as they are
ECrash ==
    /\ up /\ ~closed
    /\ up' = FALSE
    /\ data' = EmptyMap
    /\ pc' = Idle
    /\ res' = Res("crash", "ok", << >>, Nil)
    /\ g' = [g EXCEPT !.clean = FALSE]
    /\ UNCHANGED <<callerVars, kind, closed, snap, tmp, walVars, txVars>>

\* NewMemoryEngine / NewDiskEngine on the same path, once the previous
\* engine is closed or dead
EOpen ==
    /\ ~up \/ closed
    /\ pc.at = "idle"
    /\ LET r == IF kind = "memory" THEN [err |-> "ok", data |-> EmptyMap]
                ELSE load(snap) IN
       /\ up' = (r.err = "ok")
       /\ data' = r.data
       /\ res' = Res("open", r.err, << >>, Nil)
    /\ closed' = FALSE
    /\ g' = [g EXCEPT !.fresh = FALSE, !.hist = << >>]
    /\ UNCHANGED <<callerVars, kind, snap, tmp, pc, walVars, txVars>>

NextEngine ==
    \/ \E k \in InKeys, v \in InValues : EPut(k, v)
    \/ \E k \in InKeys : EDelete(k)
    \/ SaveBegin
    \/ SaveWritten
    \/ SaveRename
    \/ EClose
    \/ ECrash
    \/ EOpen

SpecEngine == InitEngine /\ [][NextEngine]_vars

-----------------------------------------------------------------------------
(* Properties of the bare engine *)

\* the keys a caller may hold: the valid inputs and what they decode to
AllKeys == {k \in InKeys : k # EmptyKey} \cup {JSONString(k) : k \in InKeys \ {EmptyKey}}

\* the value of the most recent Put(k, v) of h that no Delete(k) follows, or
\* Nil when there is none
RECURSIVE LatestPut(_, _)
LatestPut(h, k) ==
    IF h = << >> THEN Nil
    ELSE LET m == h[Len(h)] IN
         IF m.k = k THEN (IF m.op = "put" THEN m.v ELSE Nil)
         ELSE LatestPut(SubSeq(h, 1, Len(h) - 1), k)

C10_Map ==
    (g.fresh /\ up /\ ~closed /\ pc.at = "idle") =>
        /\ \A k \in AllKeys :
              /\ Get(data, closed, k) =
                    IF LatestPut(g.hist, k) = Nil
                    THEN [err |-> "KeyNotFound", val |-> Nil]
                    ELSE [err |-> "ok", val |-> LatestPut(g.hist, k)]
              /\ Exists(data, closed, k).err = "ok"
              /\ Exists(data, closed, k).val = (Get(data, closed, k).err = "ok")
        /\ Keys(data, closed) =
              [err |-> "ok", val |-> {k \in AllKeys : LatestPut(g.hist, k) # Nil}]

C10_DeleteAbsent ==
    (/\ up /\ ~closed /\ pc.at = "idle" /\ pc'.at = "idle"
     /\ res'.op = "delete" /\ res'.k # EmptyKey /\ res'.k \notin DOMAIN data)
    => (res'.err = "KeyNotFound" /\ data' = data /\ snap' = snap /\ g'.hist = g.hist)

C9_AtomicSnapshot ==
    snap = IF g.nsaved THEN MarshalDisk(g.saved) ELSE NoFile

\* the process died between writing the temp file and renaming it
C9_Witness ==
    /\ ~up /\ tmp.st = "full" /\ snap.st = "full" /\ tmp # snap

\* C8: after Close, a new disk engine opened on the same path holds exactly
\* the pairs the closed engine held.
C8_DiskPersistence ==
    (kind = "disk" /\ res.op = "open" /\ g.clean /\ pc.at = "idle")
    => (res.err = "ok" /\ data = g.visible)

C11_Reads ==
    (up /\ closed) =>
        /\ \A k \in InKeys :
              /\ Get(data, closed, k) = [err |-> "StorageClosed", val |-> Nil]
              /\ Exists(data, closed, k) = [err |-> "StorageClosed", val |-> FALSE]
        /\ Keys(data, closed) = [err |-> "StorageClosed", val |-> {}]

C11_Writes ==
    (up /\ closed /\ res'.op \in {"put", "delete"})
    => (res'.err = "StorageClosed" /\ data' = data /\ snap' = snap /\ tmp' = tmp
        /\ closed' /\ pc' = pc)

\* C11: once Close has returned on a memory or disk engine, every later Put,
\* Get, Delete, Exists and Keys returns StorageClosed whatever its arguments,
\* the empty key and the nil value included, and none of them changes the
\* map, the files or the closed flag.
C11_ClosedAbsorbs == [](C11_Reads) /\ [][C11_Writes]_vars

\* a Put with the empty key and a nil value has been refused by a closed
\* disk engine
C11_Witness ==
    /\ kind = "disk" /\ up /\ closed
    /\ res = Res("put", "StorageClosed", EmptyKey, Nil)

\* C12: the first Close on an open engine returns no error and, on the disk
\* engine, leaves the snapshot of the current map at the data path; every
\* later Close returns no error.
C12_CloseFinalSave ==
    (up /\ res.op = "close") =>
        /\ res.err = "ok"
        /\ kind = "disk" => snap = MarshalDisk(g.visible)

C13_Reads ==
    (up /\ ~closed) =>
        /\ Get(data, closed, EmptyKey) = [err |-> "InvalidKey", val |-> Nil]
        /\ Exists(data, closed, EmptyKey) = [err |-> "InvalidKey", val |-> FALSE]

\* a Put or Delete returns on an open engine
C13_Writes ==
    (up /\ ~closed /\ res'.op \in {"put", "delete"} /\ pc'.at = "idle") =>
        /\ res'.k = EmptyKey
              => (res'.err = "InvalidKey" /\ data' = data /\ snap' = snap)
        /\ (res'.op = "put" /\ res'.k # EmptyKey /\ res'.val = Nil)
              => (res'.err = "InvalidValue" /\ data' = data /\ snap' = snap)
        /\ (res'.op = "put" /\ res'.k # EmptyKey /\ res'.val = << >>)
              => /\ res'.err = "ok"
                 /\ Get(data', closed', res'.k) = [err |-> "ok", val |-> << >>]

-----------------------------------------------------------------------------
(* The WAL-wrapped storage over a memory or a disk engine: direct writes,   *)
(* Checkpoint, Recover and Close, a crash possible between the steps of     *)
(* every call, and a reopen on the same paths.  The transaction calls are   *)
(* defined here and run in the specification further down.                  *)

\* the keys the callers of the WAL-wrapped storage use
WalKeys == {EmptyKey, KeyA}
\* transaction t stages values no other writer uses
TxValues(t) == {Nil, <<50 + t>>}
\* how the file system answers one append
IOOutcomes == {"ok", "write_fails", "sync_fails"}

Pairs(m) == {<<k, m[k]>> : k \in DOMAIN m}
Visible(pairs) == \E p \in pairs : p[1] \in DOMAIN data /\ data[p[1]] = p[2]

\* a logEntry that reports success without writing the frame
logEntryUnwritten(entry, io) ==
    IF walClosed THEN [err |-> "StorageClosed", wal |-> wal]
    ELSE [err |-> "ok", wal |-> wal]

\* WAL.logEntry: the error returned and the file afterwards
logEntry(entry, io) ==
    IF walClosed THEN [err |-> "StorageClosed", wal |-> wal]
    ELSE IF ~walFile \/ io = "write_fails" THEN [err |-> "IOFailure", wal |-> wal]
    ELSE IF io = "sync_fails"
    THEN [err |-> "IOFailure", wal |-> Append(wal, Marshal(entry))]
    ELSE [err |-> "ok", wal |-> Append(wal, Marshal(entry))]

\* what save() leaves at the data path once the engine map is d
Saved(d) == IF kind = "disk" THEN MarshalDisk(d) ELSE snap

\* g.hist: "fresh" while the paths have seen only successful Put and Delete
\*   calls since they were created, "pdc" while the live storage has seen only
\*   successful Put, Delete and Checkpoint calls since it was opened;
\* g.visible, g.clean: the engine map at the last Close or crash, and whether
\*   it was a Close;
\* g.o: what the open that has just returned started from;
\* g.aborted: the staged writes of aborted transactions;
\* g.unmarked: the staged writes of transactions whose commit stopped before
\*   its Commit marker was in the log;
\* g.reopened: the storage is not the first one opened on the paths
NoOpen == [hist |-> "other", clean |-> FALSE, discard |-> FALSE]

InitWal ==
    /\ kind \in {"memory", "disk"}
    /\ up = TRUE
    /\ data = EmptyMap
    /\ closed = FALSE
    /\ snap = NoFile
    /\ tmp = NoFile
    /\ pc = Idle
    /\ wal = << >>
    /\ walFile = TRUE
    /\ walClosed = FALSE
    /\ NoTx
    /\ NoCallers
    /\ res = Res("open", "ok", << >>, Nil)
    /\ g = [hist |-> "fresh", visible |-> EmptyMap, clean |-> FALSE, o |-> NoOpen,
            aborted |-> {}, unmarked |-> {}, reopened |-> FALSE]

\* the bookkeeping once a call has acted on the live storage
Acted == IF closed THEN g ELSE [g EXCEPT !.visible = EmptyMap, !.o = NoOpen]
Other == [Acted EXCEPT !.hist = "other"]
Kept(err) == [Acted EXCEPT !.hist = IF err = "ok" THEN @ ELSE "other"]

\* WALStorage.Put up to the return of wal.LogPut
WSPut(key, value, ts, io) ==
    /\ up /\ pc.at = "idle" /\ Len(wal) < MaxWal
    /\ LET r == logEntry(LogEntry(LogEntryPut, key, value, ts), io) IN
       /\ wal' = r.wal
       /\ res' = ResAt("put", r.err, << >>, Nil, "log")
       /\ g' = Kept(r.err)
       /\ pc' = IF r.err = "ok" THEN At("put_apply", "put", key, value) ELSE pc
    /\ UNCHANGED <<callerVars, engineVars, walFile, walClosed, txVars>>

\* WALStorage.Put: engine.Put after the record is logged
WSPutApply ==
    /\ up /\ pc.at = "put_apply"
    /\ LET e == PutCheck(closed, pc.k, pc.v) IN
       /\ data' = IF e = "ok" THEN PutApply(data, pc.k, pc.v) ELSE data
       /\ snap' = IF e = "ok" THEN Saved(data') ELSE snap
       /\ res' = ResAt("put", e, << >>, Nil, "apply")
       /\ g' = Kept(e)
    /\ pc' = Idle
    /\ UNCHANGED <<callerVars, kind, up, closed, tmp, walVars, txVars>>

\* WALStorage.Delete up to the return of wal.LogDelete
WSDelete(key, ts, io) ==
    /\ up /\ pc.at = "idle" /\ Len(wal) < MaxWal
    /\ LET r == logEntry(LogEntry(LogEntryDelete, key, Nil, ts), io) IN
       /\ wal' = r.wal
       /\ res' = ResAt("delete", r.err, << >>, Nil, "log")
       /\ g' = Kept(r.err)
       /\ pc' = IF r.err = "ok" THEN At("delete_apply", "delete", key, Nil) ELSE pc
    /\ UNCHANGED <<callerVars, engineVars, walFile, walClosed, txVars>>

\* WALStorage.Delete: engine.Delete after the record is logged
WSDeleteApply ==
    /\ up /\ pc.at = "delete_apply"
    /\ LET e == DeleteCheck(data, closed, pc.k) IN
       /\ data' = IF e = "ok" THEN DeleteApply(data, pc.k) ELSE data
       /\ snap' = IF e = "ok" THEN Saved(data') ELSE snap
       /\ res' = ResAt("delete", e, << >>, Nil, "apply")
       /\ g' = Kept(e)
    /\ pc' = Idle
    /\ UNCHANGED <<callerVars, kind, up, closed, tmp, walVars, txVars>>

\* a Truncate that leaves the file as it is
TruncatedNot(w) == w

\* WAL.Truncate: the file after os.Truncate(w.filePath, 0)
Truncated(w) == << >>

\* WALStorage.Checkpoint, that is WAL.Truncate
Checkpoint ==
    /\ up /\ pc.at = "idle"
    /\ IF walClosed
       THEN /\ res' = Res("checkpoint", "StorageClosed", << >>, Nil)
            /\ g' = Other
            /\ UNCHANGED <<wal, walFile>>
       ELSE /\ wal' = Truncated(wal)
            /\ walFile' = TRUE
            /\ res' = Res("checkpoint", "ok", << >>, Nil)
            /\ g' = [Acted EXCEPT !.hist = IF @ = "other" THEN "other" ELSE "pdc"]
    /\ UNCHANGED <<callerVars, engineVars, pc, walClosed, txVars>>

\* WALStorage.Recover, that is WAL.Replay into the live engine
Recover ==
    /\ up /\ pc.at = "idle"
    /\ IF walClosed
       THEN /\ res' = Res("recover", "StorageClosed", << >>, Nil)
            /\ UNCHANGED <<data, snap, walFile>>
       ELSE LET r == ReplayLoop(data, wal, FALSE) IN
            /\ data' = r.data
            /\ snap' = IF r.wrote THEN Saved(r.data) ELSE snap
            /\ walFile' = (r.err = "ok")
            /\ res' = Res("recover", r.err, << >>, Nil)
    /\ g' = Other
    /\ UNCHANGED <<callerVars, kind, up, closed, tmp, pc, wal, walClosed, txVars>>

\* WALStorage.Close: engine.Close, then wal.Close
WSClose ==
    /\ up /\ pc.at = "idle"
    /\ IF closed
       THEN /\ res' = Res("close", "ok", << >>, Nil)
            /\ UNCHANGED <<data, closed, walClosed, g>>
       ELSE /\ closed' = TRUE
            /\ walClosed' = TRUE
            /\ data' = IF kind = "memory" THEN EmptyMap ELSE data
            /\ res' = Res("close", IF kind = "memory" THEN "ok" ELSE "StorageClosed",
                          << >>, Nil)
            /\ g' = [g EXCEPT !.visible = data, !.clean = TRUE, !.o = NoOpen]
    /\ UNCHANGED <<callerVars, kind, up, snap, tmp, pc, wal, walFile, txVars>>

\* the staged writes of the transaction whose commit is still logging
Logging == IF pc.at = "commit_log" THEN Pairs(GetWriteSet(txs[pc.t])) ELSE {}

\* the process dies; the files stay as they are
Crash ==
    /\ up /\ ~closed
    /\ up' = FALSE
    /\ data' = EmptyMap
    /\ pc' = Idle
    /\ walFile' = FALSE
    /\ txs' = << >> /\ registry' = {} /\ nextID' = 0
    /\ res' = Res("crash", "ok", << >>, Nil)
    /\ g' = [g EXCEPT !.visible = data, !.clean = FALSE, !.o = NoOpen,
                      !.hist = IF pc.at = "idle" THEN @ ELSE "other",
                      !.unmarked = @ \cup Logging]
    /\ UNCHANGED <<callerVars, kind, closed, snap, tmp, wal, walClosed>>

\* NewWALMemoryEngine / NewWALDiskEngine on the same paths once the previous
\* storage is closed or dead; discard: the snapshot file was deleted first
Open(discard) ==
    /\ ~up \/ closed
    /\ pc.at = "idle"
    /\ discard => kind = "disk"
    /\ LET file == IF discard THEN NoFile ELSE snap
           l == IF kind = "memory" THEN [err |-> "ok", data |-> EmptyMap]
                ELSE load(file)
           r == IF l.err = "ok" THEN ReplayLoop(l.data, wal, FALSE)
                ELSE [err |-> l.err, data |-> EmptyMap, wrote |-> FALSE]
       IN /\ up' = (r.err = "ok")
          /\ data' = IF r.err = "ok" THEN r.data ELSE EmptyMap
          /\ snap' = IF r.wrote THEN Saved(r.data) ELSE file
          /\ walFile' = (r.err = "ok")
          /\ walClosed' = FALSE
          /\ res' = Res("open", r.err, << >>, Nil)
          /\ g' = [g EXCEPT !.o = [hist |-> g.hist, clean |-> g.clean,
                                   discard |-> discard \/ kind = "memory"],
                            !.hist = IF r.err = "ok" THEN "pdc" ELSE "other",
                            !.reopened = TRUE]
    /\ closed' = FALSE
    /\ txs' = << >> /\ registry' = {} /\ nextID' = 0
    /\ UNCHANGED <<callerVars, kind, tmp, pc, wal>>

\* TransactionManager.BeginTransaction, on the first storage opened
Begin ==
    /\ up /\ pc.at = "idle" /\ nextID < MaxTx /\ ~g.reopened
    /\ nextID' = nextID + 1
    /\ txs' = Append(txs, NewTx)
    /\ registry' = registry \cup {nextID + 1}
    /\ res' = ResTx("begin", "ok", nextID + 1, "")
    /\ g' = Other
    /\ UNCHANGED <<callerVars, engineVars, pc, walVars>>

\* Transaction.Put on a handle the caller holds
TxPut(t, key, value) ==
    /\ up /\ pc.at = "idle" /\ t \in 1..nextID
    /\ LET r == TxPutResult(txs[t], key, value) IN
       /\ txs' = [txs EXCEPT ![t] = r.tx]
       /\ res' = ResTx("tx_put", r.err, t, "")
    /\ g' = Other
    /\ UNCHANGED <<callerVars, engineVars, pc, walVars, registry, nextID>>

\* Transaction.Delete on a handle the caller holds
TxDelete(t, key) ==
    /\ up /\ pc.at = "idle" /\ t \in 1..nextID
    /\ LET r == TxDeleteResult(txs[t], key) IN
       /\ txs' = [txs EXCEPT ![t] = r.tx]
       /\ res' = ResTx("tx_delete", r.err, t, "")
    /\ g' = Other
    /\ UNCHANGED <<callerVars, engineVars, pc, walVars, registry, nextID>>

\* WALStorage.AbortTransaction: the manager's AbortTransaction
Abort(t) ==
    /\ up /\ pc.at = "idle" /\ t \in 1..nextID
    /\ LET e == ManagerAbortCheck(t) IN
       /\ res' = ResTx("abort", e, t, "")
       /\ IF e = "ok"
          THEN /\ txs' = [txs EXCEPT ![t].aborted = TRUE]
               /\ registry' = registry \ {t}
               /\ g' = [Other EXCEPT !.aborted = @ \cup Pairs(GetWriteSet(txs[t]))]
          ELSE /\ UNCHANGED <<txs, registry>>
               /\ g' = Other
    /\ UNCHANGED <<callerVars, engineVars, pc, walVars, nextID>>

\* WALStorage.CommitTransaction: tx.GetWriteSet() and tx.GetDeletedSet() taken
CommitBegin(t) ==
    /\ up /\ pc.at = "idle" /\ t \in 1..nextID
    /\ pc' = [at |-> "commit_log", op |-> "commit", k |-> << >>, v |-> Nil, t |-> t,
              puts |-> GetWriteSet(txs[t]), dels |-> GetDeletedSet(txs[t])]
    /\ res' = ResTx("commit", "ok", t, "begin")
    /\ g' = Other
    /\ UNCHANGED <<callerVars, engineVars, walVars, txVars>>

\* a commit that goes on after a failed append
CommitAppendGoesOn(r, rest) ==
    /\ wal' = r.wal
    /\ res' = ResTx("commit", r.err, pc.t, "log")
    /\ pc' = rest

\* one append of the commit: the call returns the error of a failed append
CommitAppend(r, rest) ==
    /\ wal' = r.wal
    /\ res' = ResTx("commit", r.err, pc.t, "log")
    /\ pc' = IF r.err = "ok" THEN rest ELSE Idle

\* a commit that does not wait for its first loop
PutsLoggedAlways == TRUE

\* WALStorage.CommitTransaction: the loop over tx.GetWriteSet() has ended
PutsLogged == DOMAIN pc.puts = {}

\* WALStorage.CommitTransaction: the loop over tx.GetDeletedSet() has ended
DeletesLogged == pc.dels = {}

\* WALStorage.CommitTransaction: wal.LogPut of one staged write, in the order
\* the map iteration yields
CommitLogPut(key, ts, io) ==
    /\ up /\ pc.at = "commit_log" /\ Len(wal) < MaxWal
    /\ key \in DOMAIN pc.puts
    /\ LET r == logEntry(LogEntry(LogEntryPut, key, pc.puts[key], ts), io) IN
       /\ CommitAppend(r, [pc EXCEPT !.puts = MapDel(@, key)])
       /\ g' = IF r.err = "ok" THEN g ELSE [g EXCEPT !.unmarked = @ \cup Logging]
    /\ UNCHANGED <<callerVars, engineVars, walFile, walClosed, txVars>>

\* WALStorage.CommitTransaction: wal.LogDelete of one staged delete
CommitLogDelete(key, ts, io) ==
    /\ up /\ pc.at = "commit_log" /\ Len(wal) < MaxWal
    /\ PutsLogged /\ key \in pc.dels
    /\ LET r == logEntry(LogEntry(LogEntryDelete, key, Nil, ts), io) IN
       /\ CommitAppend(r, [pc EXCEPT !.dels = @ \ {key}])
       /\ g' = IF r.err = "ok" THEN g ELSE [g EXCEPT !.unmarked = @ \cup Logging]
    /\ UNCHANGED <<callerVars, engineVars, walFile, walClosed, txVars>>

\* WALStorage.CommitTransaction: wal.LogCommit
CommitLogCommit(ts, io) ==
    /\ up /\ pc.at = "commit_log" /\ Len(wal) < MaxWal
    /\ PutsLogged /\ DeletesLogged
    /\ LET r == logEntry(LogEntry(LogEntryCommit, EmptyKey, Nil, ts), io) IN
       /\ CommitAppend(r, [pc EXCEPT !.at = "commit_apply"])
       /\ g' = IF r.wal # wal THEN [g EXCEPT !.unmarked = @ \ Logging]
                ELSE [g EXCEPT !.unmarked = @ \cup Logging]
    /\ UNCHANGED <<callerVars, engineVars, walFile, walClosed, txVars>>

\* WALStorage.CommitTransaction: engine.CommitTransaction(tx), which applies
\* the staged sets and then marks the transaction committed in the manager
CommitApply ==
    /\ up /\ pc.at = "commit_apply"
    /\ LET e == ManagerCommitCheck(pc.t) IN
       /\ data' = EngineCommitApply(data, txs[pc.t])
       /\ snap' = Saved(data')
       /\ res' = ResTx("commit", e, pc.t, "apply")
       /\ IF e = "ok"
          THEN /\ txs' = [txs EXCEPT ![pc.t].committed = TRUE]
               /\ registry' = registry \ {pc.t}
          ELSE UNCHANGED <<txs, registry>>
       /\ g' = Acted
    /\ pc' = Idle
    /\ UNCHANGED <<callerVars, kind, up, closed, tmp, walVars, nextID>>

Next ==
    \/ \E k \in WalKeys, v \in InValues, ts \in Timestamps, io \in IOOutcomes :
          WSPut(k, v, ts, io)
    \/ WSPutApply
    \/ \E k \in WalKeys, ts \in Timestamps, io \in IOOutcomes : WSDelete(k, ts, io)
    \/ WSDeleteApply
    \/ Checkpoint
    \/ Recover
    \/ WSClose
    \/ Crash
    \/ \E discard \in BOOLEAN : Open(discard)

Spec == InitWal /\ [][Next]_vars

-----------------------------------------------------------------------------
(* Properties of the WAL-wrapped storage under direct writes *)

\* C1: WAL replay equivalence. When the paths have seen only successful Put
\* and Delete calls since they were created and the engine state is then
\* discarded (the snapshot file deleted, or a memory engine), the open that
\* replays the WAL into a fresh engine succeeds and yields exactly the map
\* those calls produced.
C1_ReplayEquivalence ==
    (res.op = "open" /\ g.o.hist = "fresh" /\ g.o.discard)
        => (res.err = "ok" /\ data = g.visible)

\* C2: reopen after checkpoint. For a WAL-over-disk storage that has seen
\* only successful Put, Delete and Checkpoint calls and was then closed, the
\* open on the same data path and WAL path succeeds and exposes exactly the
\* map that was visible before Close.
\* The formula takes the case in which every Put record of the log carries
\* its value.
C2_ReopenAfterCheckpoint ==
    (res.op = "open" /\ kind = "disk" /\ g.o.hist \in {"fresh", "pdc"}
        /\ g.o.clean /\ ~g.o.discard
        /\ \A i \in 1..Len(wal) : wal[i].type = LogEntryPut => wal[i].value # Nil)
        => (res.err = "ok" /\ data = g.visible)

\* the record of the call in flight is the last one in the log
Logged(w, type) ==
    /\ w # << >>
    /\ \E ts \in Timestamps : w[Len(w)] = Marshal(LogEntry(type, pc.k, pc.v, ts))

C3_Step ==
    /\ (res'.op \in {"put", "delete"} /\ res'.stage = "log" /\ res'.err # "ok")
          => (data' = data /\ snap' = snap /\ pc'.at = "idle")
    /\ (res'.op = "put" /\ res'.stage = "apply")
          => /\ Logged(wal, LogEntryPut)
             /\ res'.err = "ok" =>
                   /\ Get(data', closed', pc.k) = [err |-> "ok", val |-> pc.v]
                   /\ Logged(wal', LogEntryPut)
             /\ res'.err # "ok" => data' = data
    /\ (res'.op = "delete" /\ res'.stage = "apply")
          => /\ Logged(wal, LogEntryDelete)
             /\ res'.err = "ok" =>
                   /\ Get(data', closed', pc.k).err = "KeyNotFound"
                   /\ Logged(wal', LogEntryDelete)
             /\ res'.err # "ok" => data' = data

\* C3: log-then-apply. In WALStorage.Put and WALStorage.Delete the engine is
\* modified only once the record of the call is in the log; a successful
\* return leaves the effect both in the log and in the engine; a failed
\* append returns the error and leaves the engine map as it was.
C3_LogThenApply == [][C3_Step]_vars

\* a Put has returned success: its record is in the log, its value in the
\* engine
C3_Witness ==
    /\ res.op = "put" /\ res.stage = "apply" /\ res.err = "ok"
    /\ wal # << >> /\ wal[Len(wal)].type = LogEntryPut
    /\ KeyA \in DOMAIN data

C7_Step ==
    /\ (res'.op = "checkpoint" /\ res'.err = "ok")
          => (data' = data /\ wal' = << >>)
    /\ (res'.op \in {"put", "delete"} /\ res'.stage = "log" /\ res'.err = "ok"
          /\ res.op = "checkpoint" /\ res.err = "ok")
          => Len(wal') = 1

\* C7: Checkpoint preserves state. A successful Checkpoint leaves the engine
\* map exactly as it was and the WAL file empty; the Put or Delete that
\* follows appends the first record of the log.
C7_CheckpointPreservesState == [][C7_Step]_vars

\* a Checkpoint has returned success on a storage that holds a key
C7_Witness ==
    /\ res.op = "checkpoint" /\ res.err = "ok"
    /\ KeyA \in DOMAIN data /\ wal = << >>

C24_Step ==
    (res'.op = "recover" /\ ~walClosed /\ g.hist \in {"fresh", "pdc"}
        /\ \A i \in 1..Len(wal) : wal[i].type = LogEntryPut => wal[i].value # Nil)
        => /\ res'.err = "ok"
           /\ data' = data
           /\ ReplayLoop(data', wal', FALSE).err = "ok"
           /\ ReplayLoop(data', wal', FALSE).data = data'

\* C24: Recover is idempotent. On an open WAL-wrapped storage that has seen
\* only successful Put, Delete and Checkpoint calls, Recover returns no
\* error and leaves the visible map unchanged, and a second Recover gives
\* the same.
\* The formula takes the case in which every Put record of the log carries
\* its value.
C24_RecoverIdempotent == [][C24_Step]_vars

\* what a reopen on the same paths starts the replay from
Reloaded(file) == IF kind = "memory" THEN EmptyMap ELSE load(file).data

C25_Step ==
    LET w0 == SubSeq(wal, 1, Len(wal) - 1)
        rejected == /\ res'.op \in {"put", "delete"} /\ res'.stage = "apply"
                    /\ res'.err \in {"InvalidKey", "InvalidValue", "KeyNotFound"}
    IN /\ (rejected /\ ReplayLoop(data, w0, FALSE).err = "ok"
                    /\ ReplayLoop(data, w0, FALSE).data = data)
          => /\ ReplayLoop(data', wal', FALSE).err = "ok"
             /\ ReplayLoop(data', wal', FALSE).data = data'
       /\ (rejected /\ ReplayLoop(Reloaded(snap), w0, FALSE).err = "ok"
                    /\ ReplayLoop(Reloaded(snap), w0, FALSE).data = data)
          => /\ ReplayLoop(Reloaded(snap'), wal', FALSE).err = "ok"
             /\ ReplayLoop(Reloaded(snap'), wal', FALSE).data = data'

\* C25: a rejected write does not poison the log. When WALStorage.Put or
\* WALStorage.Delete returns InvalidKey, InvalidValue or KeyNotFound from
\* the engine, a Recover that succeeded and kept the map before the call
\* still does so after it, and so does a reopen on the same paths.
C25_RejectedWriteKeepsLog == [][C25_Step]_vars

C26_Step ==
    (res'.op = "put" /\ res'.stage = "apply" /\ res'.err = "ok" /\ pc.v = << >>)
        => LET r == ReplayLoop(EmptyMap, <<wal'[Len(wal')]>>, FALSE) IN
           /\ wal' # << >>
           /\ r.err = "ok"
           /\ Get(r.data, FALSE, pc.k) = [err |-> "ok", val |-> << >>]

\* C26: empty-value round trip through the WAL. A successful
\* WALStorage.Put(k, v) with v the empty, non-nil byte sequence writes a
\* record that Replay decodes and applies as Put(k, empty): the replay
\* succeeds and Get(k) returns the empty sequence.
C26_EmptyValueRoundTrip == [][C26_Step]_vars

-----------------------------------------------------------------------------
(* Transactions on the WAL-wrapped storage: the storage holds what earlier  *)
(* direct writes left and a checkpoint has emptied the log; every call on   *)
(* it from then on goes through a transaction.                              *)

InitTx ==
    /\ kind \in {"memory", "disk"}
    /\ up = TRUE
    /\ data = MapPut(EmptyMap, KeyA, <<49>>)
    /\ closed = FALSE
    /\ snap = IF kind = "disk" THEN MarshalDisk(data) ELSE NoFile
    /\ tmp = NoFile
    /\ pc = Idle
    /\ wal = << >>
    /\ walFile = TRUE
    /\ walClosed = FALSE
    /\ NoTx
    /\ NoCallers
    /\ res = Res("checkpoint", "ok", << >>, Nil)
    /\ g = [hist |-> "other", visible |-> EmptyMap, clean |-> FALSE, o |-> NoOpen,
            aborted |-> {}, unmarked |-> {}, reopened |-> FALSE]

NextTx ==
    \/ Begin
    \/ \E t \in 1..MaxTx, k \in WalKeys : \E v \in TxValues(t) : TxPut(t, k, v)
    \/ \E t \in 1..MaxTx, k \in WalKeys : TxDelete(t, k)
    \/ \E t \in 1..MaxTx : Abort(t)
    \/ \E t \in 1..MaxTx : CommitBegin(t)
    \/ \E k \in WalKeys, ts \in Timestamps, io \in IOOutcomes : CommitLogPut(k, ts, io)
    \/ \E k \in WalKeys, ts \in Timestamps, io \in IOOutcomes : CommitLogDelete(k, ts, io)
    \/ \E ts \in Timestamps, io \in IOOutcomes : CommitLogCommit(ts, io)
    \/ CommitApply
    \/ Recover
    \/ Crash
    \/ \E discard \in BOOLEAN : Open(discard)

SpecTx == InitTx /\ [][NextTx]_vars

-----------------------------------------------------------------------------
(* Properties of transactions on the WAL-wrapped storage *)

C5_AbortInvisibility ==
    (res.op \in {"open", "recover"} /\ res.err = "ok") => ~Visible(g.aborted)

\* C6: crash during commit. After a crash or a failed append has interrupted
\* CommitTransaction(T) before T's Commit marker was in the log, the reopen
\* that replays the WAL shows none of T's staged writes.
C6_CrashDuringCommit ==
    (res.op = "open" /\ res.err = "ok") => ~Visible(g.unmarked)

\* the error a terminal transaction answers every call with
Terminal(tx) ==
    IF tx.aborted THEN "TransactionAborted" ELSE "TransactionAlreadyCommitted"

\* C18: terminal transaction states absorb operations. Once a transaction
\* is committed its Get, Put, Delete, Exists and Keys return
\* TransactionAlreadyCommitted, once it is aborted they return
\* TransactionAborted, and its read set, write set and deleted set stay as
\* they are.
C18_TerminalAbsorbs ==
    \A t \in DOMAIN txs :
        (txs[t].committed \/ txs[t].aborted) =>
            /\ \A k \in WalKeys :
                  /\ TxGetResult(txs[t], k) =
                        [err |-> Terminal(txs[t]), val |-> Nil, tx |-> txs[t]]
                  /\ TxExistsResult(txs[t], k) =
                        [err |-> Terminal(txs[t]), val |-> FALSE, tx |-> txs[t]]
                  /\ TxDeleteResult(txs[t], k) =
                        [err |-> Terminal(txs[t]), tx |-> txs[t]]
                  /\ \A v \in TxValues(t) :
                        TxPutResult(txs[t], k, v) =
                           [err |-> Terminal(txs[t]), tx |-> txs[t]]
            /\ TxKeysResult(txs[t]) =
                  [err |-> Terminal(txs[t]), val |-> {}, tx |-> txs[t]]

\* an aborted transaction that had staged a write has refused a Put
C18_Witness ==
    /\ res.op = "tx_put" /\ res.err = "TransactionAborted"
    /\ txs[res.t].aborted /\ txs[res.t].writeSet # EmptyMap

\* C19: no key is in both the write set and the deleted set of a
\* transaction: Put(k, v) stores v in the write set and takes k out of the
\* deleted set, Delete(k) puts k in the deleted set and takes it out of the
\* write set.
C19_WriteSetDeletedDisjoint ==
    \A t \in DOMAIN txs :
        /\ DOMAIN txs[t].writeSet \cap txs[t].deleted = {}
        /\ \A k \in WalKeys \ {EmptyKey} :
              /\ \A v \in TxValues(t) \ {Nil} :
                    LET r == TxPutResult(txs[t], k, v) IN
                    r.err = "ok" =>
                        (r.tx.writeSet[k] = v /\ k \notin r.tx.deleted)
              /\ LET r == TxDeleteResult(txs[t], k) IN
                 r.err = "ok" =>
                     (k \in r.tx.deleted /\ k \notin DOMAIN r.tx.writeSet)

\* a transaction holds a staged write for a key it could have deleted before
C19_Witness ==
    /\ res.op = "tx_put" /\ res.err = "ok"
    /\ KeyA \in DOMAIN txs[res.t].writeSet /\ txs[res.t].deleted = {}

C27_Step ==
    (res'.op = "commit" /\ res'.stage \in {"log", "apply"}
        /\ (txs[pc.t].aborted \/ txs[pc.t].committed))
        => /\ wal' = wal
           /\ pc'.at = "idle" => res'.err # "ok"

\* C27: CommitTransaction(T) on a WAL-wrapped storage, for a transaction T
\* that is already aborted or already committed, returns an error and
\* appends no record to the WAL.
C27_NoRecordForTerminalTx == [][C27_Step]_vars

\* the manager's state
C30_Registry ==
    \A t \in DOMAIN txs :
        /\ (t \in registry) <=> (~txs[t].committed /\ ~txs[t].aborted)
        /\ ~(txs[t].committed /\ txs[t].aborted)

C30_Step ==
    /\ (res'.op = "abort" /\ res'.t \notin registry)
          => /\ res'.err = "TransactionNotFound"
             /\ UNCHANGED txVars
    /\ (res'.op = "commit" /\ res'.stage = "apply" /\ res'.t \notin registry)
          => /\ res'.err = "TransactionNotFound"
             /\ UNCHANGED txVars

\* C30: transaction lifecycle. A transaction is in the manager's registry
\* exactly when it is neither committed nor aborted, no transaction is both,
\* and the manager's CommitTransaction or AbortTransaction on an id that is
\* not in the registry returns TransactionNotFound and leaves the manager's
\* state as it was.
C30_Lifecycle == [](C30_Registry) /\ [][C30_Step]_vars

\* AbortTransaction has refused a transaction that was aborted before
C30_Witness ==
    /\ res.op = "abort" /\ res.err = "TransactionNotFound"
    /\ txs[res.t].aborted /\ res.t \notin registry

-----------------------------------------------------------------------------
(* Copy isolation: one caller of a memory or disk engine keeps the slices   *)
(* it passed to Put and the slices Get returned, and writes into them.      *)

\* a slice that shares its array with no stored value
Unshared == Nil

\* a Put that stores the caller's slice itself
PutSharesArgument(key) == key

\* Put: e.data[key] = make([]byte, len(value)); copy(e.data[key], value).
\* The stored value is a new array: the caller's slice shares it with no key.
PutShares(key) == Unshared

\* Get: result := make([]byte, len(value)); copy(result, value)
GetShares(key) == Unshared

\* the slices after the array of the value stored under key was replaced or
\* dropped by the engine
Unshare(h, key) ==
    [i \in DOMAIN h |-> IF h[i].shares = key THEN [h[i] EXCEPT !.shares = Unshared]
                        ELSE h[i]]

InitCopy ==
    /\ kind \in {"memory", "disk"}
    /\ up = TRUE
    /\ data = EmptyMap
    /\ closed = FALSE
    /\ snap = NoFile
    /\ tmp = NoFile
    /\ pc = Idle
    /\ NoWal
    /\ NoTx
    /\ NoCallers
    /\ res = Res("open", "ok", << >>, Nil)
    /\ g = [fresh |-> TRUE, hist |-> << >>, saved |-> EmptyMap, nsaved |-> FALSE,
            visible |-> EmptyMap, clean |-> FALSE]

\* the caller builds a slice and passes it to Put, which returns
CPut(key, value) ==
    /\ Len(held) < MaxHeld
    /\ LET e == PutCheck(closed, key, value) IN
       /\ res' = Res("put", e, key, value)
       /\ IF e = "ok"
          THEN /\ data' = PutApply(data, key, value)
               /\ snap' = IF kind = "disk" THEN MarshalDisk(data') ELSE snap
               /\ held' = Append(Unshare(held, key),
                                 [bytes |-> value, shares |-> PutShares(key)])
          ELSE UNCHANGED <<data, snap, held>>
    /\ UNCHANGED <<kind, up, closed, tmp, pc, walVars, txVars, th, mu, idx, g>>

\* the caller keeps the slice Get returned
CGet(key) ==
    /\ Len(held) < MaxHeld
    /\ LET r == Get(data, closed, key) IN
       /\ res' = Res("get", r.err, key, r.val)
       /\ held' = IF r.err = "ok"
                  THEN Append(held, [bytes |-> r.val, shares |-> GetShares(key)])
                  ELSE held
    /\ UNCHANGED <<engineVars, pc, walVars, txVars, th, mu, idx, g>>

\* the caller drops the slices it holds
CDrop ==
    /\ held # << >>
    /\ held' = << >>
    /\ res' = Res("drop", "ok", << >>, Nil)
    /\ UNCHANGED <<engineVars, pc, walVars, txVars, th, mu, idx, g>>

\* the caller overwrites every byte of slice i with b; the write lands in
\* the array, so in everything that shares it
CMutate(i, b) ==
    /\ i \in DOMAIN held
    /\ LET new == [j \in DOMAIN held[i].bytes |-> b]
           k == held[i].shares
       IN /\ held' = [j \in DOMAIN held |->
                         IF j = i \/ (k # Unshared /\ held[j].shares = k)
                         THEN [held[j] EXCEPT !.bytes = new] ELSE held[j]]
          /\ data' = IF k # Unshared /\ k \in DOMAIN data
                     THEN [data EXCEPT ![k] = new] ELSE data
    /\ res' = Res("mutate", "ok", << >>, Nil)
    /\ UNCHANGED <<kind, up, closed, snap, tmp, pc, walVars, txVars, th, mu, idx, g>>

NextCopy ==
    \/ \E k \in InKeys, v \in InValues : CPut(k, v)
    \/ \E k \in InKeys : CGet(k)
    \/ CDrop
    \/ \E i \in 1..MaxHeld, b \in {49, 50} : CMutate(i, b)

SpecCopy == InitCopy /\ [][NextCopy]_vars

C14_Step ==
    res'.op = "mutate" =>
        \A k \in InKeys : Get(data', closed', k) = Get(data, closed, k)

\* C14: copy isolation. Whatever the caller writes into a slice it passed
\* to Put or into a slice Get returned, every later Get(k) returns what it
\* returned before the write: the stored value shares no array with a slice
\* the caller can reach.
C14_CopyIsolation == [][C14_Step]_vars

\* the caller has overwritten the slice it had put under a key, and the
\* engine still holds the value that was put
C14_Witness ==
    /\ res.op = "mutate" /\ Len(held) = 2
    /\ \E k \in DOMAIN data : data[k] = <<49>> /\ held[1].bytes = <<50>>
                              /\ held[2].bytes = <<50>>

-----------------------------------------------------------------------------
(* Concurrent callers of one WAL-wrapped storage: each goroutine makes one  *)
(* call, Put, Delete, CommitTransaction or BeginTransaction, and the steps  *)
(* of the calls interleave as the locks of the code allow.  The WAL file    *)
(* is kept write by write: the length prefix and the payload of a record    *)
(* are two writes.                                                          *)

Threads == 1..MaxThreads

\* a logEntry that does not wait for WAL.mutex
WalMutexFreeAlways == TRUE

\* logEntry: w.mutex.Lock() returns when nobody holds the mutex
WalMutexFree == mu.wal = 0

\* a BeginTransaction that does not wait for the manager's lock
TmMutexFreeAlways == TRUE

\* BeginTransaction: tm.mu.Lock() returns when nobody holds the lock
TmMutexFree == mu.tm = 0

\* the two writes of logEntry
Piece(p, frame) == [piece |-> p, frame |-> frame]

\* readEntry over the writes of the file: binary.Read of the length, then
\* io.ReadFull and json.Unmarshal of that many bytes; a length with nothing
\* after it reads as the end of the file
RECURSIVE ReadEntries(_)
ReadEntries(w) ==
    IF w = << >> THEN [err |-> "ok", frames |-> << >>]
    ELSE IF w[1].piece # "len" THEN [err |-> "Corruption", frames |-> << >>]
    ELSE IF Len(w) = 1 THEN [err |-> "ok", frames |-> << >>]
    ELSE IF w[2] # Piece("data", w[1].frame)
    THEN [err |-> "Corruption", frames |-> << >>]
    ELSE LET r == ReadEntries(SubSeq(w, 3, Len(w))) IN
         [err |-> r.err, frames |-> <<w[1].frame>> \o r.frames]

\* WAL.Replay of the file into a new engine
ReplayFile(w) ==
    LET r == ReadEntries(w)
        a == ReplayLoop(EmptyMap, r.frames, FALSE)
    IN IF a.err # "ok" THEN a
       ELSE [err |-> r.err, data |-> a.data, wrote |-> a.wrote]

NoThread == [at |-> "idle", op |-> "", todo |-> << >>, k |-> << >>, v |-> Nil,
             rec |-> Nil, n |-> 0, err |-> ""]

\* a transaction that has staged one write
Staged(t) == [NewTx EXCEPT !.writeSet = MapPut(EmptyMap, KeyA, <<50 + t>>)]

\* g.applied: the records of the Put and Delete calls in the order the
\*   engine applied them;
\* g.owner: for every record of the file, the goroutine that appended it;
\* g.ids: the ids BeginTransaction returned, in the order it returned them
InitConc ==
    /\ kind \in {"memory", "disk"}
    /\ up = TRUE
    /\ data = EmptyMap
    /\ closed = FALSE
    /\ snap = NoFile
    /\ tmp = NoFile
    /\ pc = Idle
    /\ wal = << >>
    /\ walFile = TRUE
    /\ walClosed = FALSE
    /\ txs = [t \in Threads |-> Staged(t)]
    /\ registry = Threads
    /\ nextID = MaxThreads
    /\ held = << >>
    /\ th = [t \in Threads |-> NoThread]
    /\ mu = [wal |-> 0, tm |-> 0]
    /\ idx = NoIndexes
    /\ res = Res("open", "ok", << >>, Nil)
    /\ g = [applied |-> << >>, owner |-> << >>, ids |-> << >>]

\* the records CommitTransaction appends for tx: its Puts, its Deletes, the
\* Commit marker
CommitRecords(tx, ts) ==
    LET ws == GetWriteSet(tx)
        puts == SortKeys(DOMAIN ws)
        dels == SortKeys(GetDeletedSet(tx))
    IN [i \in 1..Len(puts) |-> LogEntry(LogEntryPut, puts[i], ws[puts[i]], ts)]
       \o [i \in 1..Len(dels) |-> LogEntry(LogEntryDelete, dels[i], Nil, ts)]
       \o <<LogEntry(LogEntryCommit, EmptyKey, Nil, ts)>>

ConcFrame == <<kind, up, closed, tmp, pc, walFile, walClosed, held, idx>>

\* goroutine t enters WALStorage.Put
TPut(t, key, value, ts) ==
    /\ th[t].at = "idle"
    /\ th' = [th EXCEPT ![t] = [NoThread EXCEPT !.at = "lock", !.op = "put",
                 !.k = key, !.v = value,
                 !.rec = Marshal(LogEntry(LogEntryPut, key, value, ts)),
                 !.todo = <<LogEntry(LogEntryPut, key, value, ts)>>]]
    /\ res' = ResTx("put", "ok", t, "call")
    /\ UNCHANGED <<ConcFrame, data, snap, wal, txVars, mu, g>>

\* goroutine t enters WALStorage.Delete
TDelete(t, key, ts) ==
    /\ th[t].at = "idle"
    /\ th' = [th EXCEPT ![t] = [NoThread EXCEPT !.at = "lock", !.op = "delete",
                 !.k = key,
                 !.rec = Marshal(LogEntry(LogEntryDelete, key, Nil, ts)),
                 !.todo = <<LogEntry(LogEntryDelete, key, Nil, ts)>>]]
    /\ res' = ResTx("delete", "ok", t, "call")
    /\ UNCHANGED <<ConcFrame, data, snap, wal, txVars, mu, g>>

\* goroutine t enters WALStorage.CommitTransaction with its transaction
TCommit(t, ts) ==
    /\ th[t].at = "idle"
    /\ th' = [th EXCEPT ![t] = [NoThread EXCEPT !.at = "lock", !.op = "commit",
                 !.todo = CommitRecords(txs[t], ts)]]
    /\ res' = ResTx("commit", "ok", t, "call")
    /\ UNCHANGED <<ConcFrame, data, snap, wal, txVars, mu, g>>

\* logEntry: w.mutex.Lock()
LogLock(t) ==
    /\ th[t].at = "lock" /\ WalMutexFree
    /\ mu' = [mu EXCEPT !.wal = t]
    /\ th' = [th EXCEPT ![t].at = "len"]
    /\ res' = ResTx(th[t].op, "ok", t, "lock")
    /\ UNCHANGED <<ConcFrame, data, snap, wal, txVars, g>>

\* logEntry: binary.Write of the length
LogLen(t) ==
    /\ th[t].at = "len"
    /\ wal' = Append(wal, Piece("len", Marshal(Head(th[t].todo))))
    /\ th' = [th EXCEPT ![t].at = "data"]
    /\ res' = ResTx(th[t].op, "ok", t, "len")
    /\ UNCHANGED <<ConcFrame, data, snap, txVars, mu, g>>

\* logEntry: w.file.Write of the payload, Sync, and the deferred Unlock
LogData(t) ==
    /\ th[t].at = "data"
    /\ wal' = Append(wal, Piece("data", Marshal(Head(th[t].todo))))
    /\ mu' = [mu EXCEPT !.wal = IF @ = t THEN 0 ELSE @]
    /\ th' = [th EXCEPT ![t].todo = Tail(@),
                        ![t].at = IF Len(th[t].todo) > 1 THEN "lock" ELSE "apply"]
    /\ res' = ResTx(th[t].op, "ok", t, "log")
    /\ g' = [g EXCEPT !.owner = Append(@, t)]
    /\ UNCHANGED <<ConcFrame, data, snap, txVars>>

\* WALStorage.Put / Delete: the engine call, under the engine's lock
TApplyWrite(t) ==
    /\ th[t].at = "apply" /\ th[t].op \in {"put", "delete"}
    /\ LET e == IF th[t].op = "put" THEN PutCheck(closed, th[t].k, th[t].v)
                ELSE DeleteCheck(data, closed, th[t].k) IN
       /\ data' = IF e # "ok" THEN data
                  ELSE IF th[t].op = "put" THEN PutApply(data, th[t].k, th[t].v)
                  ELSE DeleteApply(data, th[t].k)
       /\ snap' = IF e = "ok" THEN Saved(data') ELSE snap
       /\ th' = [th EXCEPT ![t].at = "done", ![t].err = e]
       /\ res' = ResTx(th[t].op, e, t, "apply")
       /\ g' = IF e = "ok" THEN [g EXCEPT !.applied = Append(@, th[t].rec)] ELSE g
    /\ UNCHANGED <<ConcFrame, wal, txVars, mu>>

\* WALStorage.CommitTransaction: engine.CommitTransaction(tx)
TApplyCommit(t) ==
    /\ th[t].at = "apply" /\ th[t].op = "commit"
    /\ LET e == ManagerCommitCheck(t) IN
       /\ data' = EngineCommitApply(data, txs[t])
       /\ snap' = Saved(data')
       /\ IF e = "ok"
          THEN /\ txs' = [txs EXCEPT ![t].committed = TRUE]
               /\ registry' = registry \ {t}
          ELSE UNCHANGED <<txs, registry>>
       /\ th' = [th EXCEPT ![t].at = "done", ![t].err = e]
       /\ res' = ResTx("commit", e, t, "apply")
    /\ UNCHANGED <<ConcFrame, wal, nextID, mu, g>>

\* goroutine t enters BeginTransaction
TBegin(t) ==
    /\ th[t].at = "idle"
    /\ th' = [th EXCEPT ![t] = [NoThread EXCEPT !.at = "tm_lock", !.op = "begin"]]
    /\ res' = ResTx("begin", "ok", t, "call")
    /\ UNCHANGED <<ConcFrame, data, snap, wal, txVars, mu, g>>

\* BeginTransaction: tm.mu.Lock()
BeginLock(t) ==
    /\ th[t].at = "tm_lock" /\ TmMutexFree
    /\ mu' = [mu EXCEPT !.tm = t]
    /\ th' = [th EXCEPT ![t].at = "tm_read"]
    /\ res' = ResTx("begin", "ok", t, "lock")
    /\ UNCHANGED <<ConcFrame, data, snap, wal, txVars, g>>

\* BeginTransaction: tm.nextID++, the load
BeginRead(t) ==
    /\ th[t].at = "tm_read"
    /\ th' = [th EXCEPT ![t].at = "tm_write", ![t].n = nextID]
    /\ res' = ResTx("begin", "ok", t, "read")
    /\ UNCHANGED <<ConcFrame, data, snap, wal, txVars, mu, g>>

\* BeginTransaction: tm.nextID++, the store
BeginWrite(t) ==
    /\ th[t].at = "tm_write"
    /\ nextID' = th[t].n + 1
    /\ th' = [th EXCEPT ![t].at = "tm_register"]
    /\ res' = ResTx("begin", "ok", t, "write")
    /\ UNCHANGED <<ConcFrame, data, snap, wal, txs, registry, mu, g>>

\* BeginTransaction: the transaction is named after tm.nextID and put in
\* the registry; the deferred Unlock; the call returns
BeginRegister(t) ==
    /\ th[t].at = "tm_register"
    /\ LET id == nextID
           n == IF id > Len(txs) THEN id ELSE Len(txs) IN
       /\ txs' = [i \in 1..n |-> IF i = id \/ i > Len(txs) THEN NewTx ELSE txs[i]]
       /\ registry' = registry \cup {id}
       /\ th' = [th EXCEPT ![t].at = "done", ![t].n = id, ![t].err = "ok"]
       /\ g' = [g EXCEPT !.ids = Append(@, id)]
    /\ mu' = [mu EXCEPT !.tm = IF @ = t THEN 0 ELSE @]
    /\ res' = ResTx("begin", "ok", t, "return")
    /\ UNCHANGED <<ConcFrame, data, snap, wal, nextID>>

NextConc ==
    \/ \E t \in Threads, ts \in Timestamps : TPut(t, KeyA, <<50 + t>>, ts)
    \/ \E t \in Threads, ts \in Timestamps : TDelete(t, KeyA, ts)
    \/ \E t \in Threads, ts \in Timestamps : TCommit(t, ts)
    \/ \E t \in Threads : LogLock(t)
    \/ \E t \in Threads : LogLen(t)
    \/ \E t \in Threads : LogData(t)
    \/ \E t \in Threads : TApplyWrite(t)
    \/ \E t \in Threads : TApplyCommit(t)
    \/ \E t \in Threads : TBegin(t)
    \/ \E t \in Threads : BeginLock(t)
    \/ \E t \in Threads : BeginRead(t)
    \/ \E t \in Threads : BeginWrite(t)
    \/ \E t \in Threads : BeginRegister(t)

SpecConc == InitConc /\ [][NextConc]_vars

-----------------------------------------------------------------------------
(* Properties of concurrent callers *)

\* every goroutine is outside a call
Quiet == \A t \in Threads : th[t].at \in {"idle", "done"}

\* C15: per-operation serialization. When Put and Delete calls that all
\* succeed have run concurrently through one WAL-wrapped storage, the order
\* of their records in the WAL is the order in which the engine applied
\* them, and replaying the WAL into a new engine gives the engine's map.
C15_PerOperationSerialization ==
    (Quiet /\ \A t \in Threads : th[t].at = "done" =>
                  (th[t].op \in {"put", "delete"} /\ th[t].err = "ok"))
        => /\ ReadEntries(wal).frames = g.applied
           /\ ReplayFile(wal).data = data

\* C16: commits are totally ordered. The records two concurrent commits
\* append are never interleaved in the log: between two records of one
\* commit there is no record of another commit.
C16_CommitsTotallyOrdered ==
    \A i, j, k \in DOMAIN g.owner :
        (i < j /\ j < k /\ g.owner[i] = g.owner[k]
            /\ th[g.owner[i]].op = "commit" /\ th[g.owner[j]].op = "commit")
        => g.owner[j] = g.owner[i]

\* the length prefix and the payload of every record are next to each other
\* in the file, and every finished append is a record of the file
C17_Contiguous ==
    /\ \A i \in DOMAIN wal :
          wal[i].piece = "len" =>
              (i = Len(wal) \/ wal[i + 1] = Piece("data", wal[i].frame))
    /\ \A i \in DOMAIN wal :
          wal[i].piece = "data" => (i > 1 /\ wal[i - 1] = Piece("len", wal[i].frame))
    /\ Len(ReadEntries(wal).frames) = Len(g.owner)

\* C17: WAL appends are totally ordered. Concurrent LogPut, LogDelete and
\* LogCommit calls exclude each other, so the length prefix and the payload
\* of each record are contiguous and no record is lost, and a Replay that
\* follows reads and applies every one of the appended records.
C17_AppendsTotallyOrdered ==
    /\ C17_Contiguous
    /\ Quiet => ReplayFile(wal).err = "ok"

\* C20: transaction ids are unique and monotonic. Every BeginTransaction,
\* concurrent ones included, returns an id greater than the id of every
\* transaction begun before it, and no two transactions share an id.
C20_UniqueMonotonicIds ==
    /\ \A i \in DOMAIN g.ids : g.ids[i] > MaxThreads
    /\ \A i, j \in DOMAIN g.ids : i < j => g.ids[i] < g.ids[j]

\* two concurrent BeginTransaction calls have returned
C20_Witness ==
    /\ Len(g.ids) = 2
    /\ \E t, u \in Threads : t # u /\ th[t].op = "begin" /\ th[u].op = "begin"
                             /\ th[t].at = "done" /\ th[u].at = "done"

-----------------------------------------------------------------------------
(* The bytes of the WAL file: every record is the document json.Marshal    *)
(* writes for a LogEntry, kept as its fields in the order of the struct,   *)
(* each with the bytes of its name and the bytes of its value.  One byte   *)
(* of a name or of a value is overwritten and the file is replayed into a  *)
(* new engine.                                                             *)

\* the bytes a corrupted position may hold: 0 9 = A R T a b and 0xFF
MutBytes == {48, 57, 61, 65, 82, 84, 97, 98, 255}

Digits == 48..57

Zeros(n) == [i \in 1..n |-> 0]

\* limbs * 10 + c over 16-bit limbs, most significant first, and the carry
\* out of the first limb
RECURSIVE MulAdd10(_, _)
MulAdd10(l, c) ==
    IF l = << >> THEN [l |-> << >>, c |-> c]
    ELSE LET n == Len(l)
             x == l[n] * 10 + c
             r == MulAdd10(SubSeq(l, 1, n - 1), x \div Half)
         IN [l |-> Append(r.l, x % Half), c |-> r.c]

\* limbs divided by 10: quotient and remainder
RECURSIVE DivMod10(_, _)
DivMod10(l, rem) ==
    IF l = << >> THEN [q |-> << >>, r |-> rem]
    ELSE LET x == rem * Half + l[1]
             rest == DivMod10(Tail(l), x % 10)
         IN [q |-> <<x \div 10>> \o rest.q, r |-> rest.r]

RECURSIVE FormatDigits(_)
FormatDigits(l) ==
    IF l = Zeros(Len(l)) THEN << >>
    ELSE LET d == DivMod10(l, 0) IN Append(FormatDigits(d.q), 48 + d.r)

\* strconv.AppendInt / AppendUint of a value that is not negative
FormatDec(l) == IF l = Zeros(Len(l)) THEN <<48>> ELSE FormatDigits(l)

\* the digits of a JSON number read into n limbs; anything but digits, a
\* leading zero before another digit, and a value that does not fit are
\* errors of json.Unmarshal
RECURSIVE ParseDigits(_, _)
ParseDigits(bs, acc) ==
    IF bs = << >> THEN [err |-> "ok", l |-> acc]
    ELSE LET r == MulAdd10(acc, Head(bs) - 48) IN
         IF r.c > 0 THEN [err |-> "ReadEntry", l |-> acc]
         ELSE ParseDigits(Tail(bs), r.l)

ParseDec(bs, n, signed) ==
    IF \/ bs = << >>
       \/ \E i \in DOMAIN bs : bs[i] \notin Digits
       \/ (Len(bs) > 1 /\ bs[1] = 48)
    THEN [err |-> "ReadEntry", l |-> Zeros(n)]
    ELSE LET r == ParseDigits(bs, Zeros(n)) IN
         IF r.err = "ok" /\ signed /\ r.l[1] >= Half \div 2
         THEN [err |-> "ReadEntry", l |-> Zeros(n)]
         ELSE r

\* base64.StdEncoding: the character of a 6-bit value and back (64 for a
\* byte outside the alphabet)
B64Char(v) ==
    IF v < 26 THEN 65 + v
    ELSE IF v < 52 THEN 97 + (v - 26)
    ELSE IF v < 62 THEN 48 + (v - 52)
    ELSE IF v = 62 THEN 43 ELSE 47

B64Index(c) ==
    IF c >= 65 /\ c <= 90 THEN c - 65
    ELSE IF c >= 97 /\ c <= 122 THEN c - 97 + 26
    ELSE IF c >= 48 /\ c <= 57 THEN c - 48 + 52
    ELSE IF c = 43 THEN 62
    ELSE IF c = 47 THEN 63
    ELSE 64

\* the padding character '='
IsPad(c) == c = 61

\* base64.StdEncoding.EncodeToString, as json.Marshal writes a []byte
RECURSIVE B64Encode(_)
B64Encode(bs) ==
    IF bs = << >> THEN << >>
    ELSE IF Len(bs) = 1 THEN
        <<B64Char(bs[1] \div 4), B64Char((bs[1] % 4) * 16), 61, 61>>
    ELSE IF Len(bs) = 2 THEN
        <<B64Char(bs[1] \div 4), B64Char((bs[1] % 4) * 16 + bs[2] \div 16),
          B64Char((bs[2] % 16) * 4), 61>>
    ELSE <<B64Char(bs[1] \div 4), B64Char((bs[1] % 4) * 16 + bs[2] \div 16),
           B64Char((bs[2] % 16) * 4 + bs[3] \div 64), B64Char(bs[3] % 64)>>
         \o B64Encode(SubSeq(bs, 4, Len(bs)))

\* base64.StdEncoding.DecodeString: groups of four characters, padding only
\* at the end; the bits of the last character that belong to no byte are
\* not looked at (the encoding is not Strict)
RECURSIVE B64Decode(_)
B64Decode(cs) ==
    IF cs = << >> THEN [err |-> "ok", bs |-> << >>]
    ELSE IF Len(cs) < 4 THEN [err |-> "ReadEntry", bs |-> << >>]
    ELSE LET a == B64Index(cs[1])
             b == B64Index(cs[2])
             c == B64Index(cs[3])
             d == B64Index(cs[4])
             last == Len(cs) = 4
         IN IF a = 64 \/ b = 64 THEN [err |-> "ReadEntry", bs |-> << >>]
            ELSE IF IsPad(cs[3]) THEN
                IF IsPad(cs[4]) /\ last
                THEN [err |-> "ok", bs |-> <<a * 4 + b \div 16>>]
                ELSE [err |-> "ReadEntry", bs |-> << >>]
            ELSE IF c = 64 THEN [err |-> "ReadEntry", bs |-> << >>]
            ELSE IF IsPad(cs[4]) THEN
                IF last
                THEN [err |-> "ok",
                      bs |-> <<a * 4 + b \div 16, (b % 16) * 16 + c \div 4>>]
                ELSE [err |-> "ReadEntry", bs |-> << >>]
            ELSE IF d = 64 THEN [err |-> "ReadEntry", bs |-> << >>]
            ELSE LET r == B64Decode(SubSeq(cs, 5, Len(cs))) IN
                 [err |-> r.err,
                  bs |-> <<a * 4 + b \div 16, (b % 16) * 16 + c \div 4,
                           (c % 4) * 64 + d>> \o r.bs]

\* the names of the LogEntry fields in its json tags
NameType == <<116, 121, 112, 101>>
NameKey == <<107, 101, 121>>
NameValue == <<118, 97, 108, 117, 101>>
NameTimestamp == <<116, 105, 109, 101, 115, 116, 97, 109, 112>>
NameChecksum == <<99, 104, 101, 99, 107, 115, 117, 109>>

Field(name, val) == [name |-> name, val |-> val]

\* json.Marshal of the LogEntry whose fields frame holds (a frame is what
\* Marshal gives): "value" is left out when empty
MarshalBytes(frame) ==
    <<Field(NameType, FormatDec(<<frame.type>>)),
      Field(NameKey, frame.key)>>
    \o (IF frame.value = Nil THEN << >>
        ELSE <<Field(NameValue, B64Encode(frame.value))>>)
    \o <<Field(NameTimestamp, FormatDec(frame.ts)),
         Field(NameChecksum, FormatDec(frame.checksum))>>

\* the decoder's match of an object key with a field name: the same bytes,
\* or the same bytes when the case of ASCII letters is ignored
Lower(b) == IF b >= 65 /\ b <= 90 THEN b + 32 ELSE b
EqualFold(a, b) ==
    /\ Len(a) = Len(b)
    /\ \A i \in DOMAIN a : Lower(a[i]) = Lower(b[i])

\* the value of the last field of doc whose name matches, Nil without one
Lookup(doc, name) ==
    LET S == {i \in DOMAIN doc : EqualFold(JSONString(doc[i].name), name)}
    IN IF S = {} THEN Nil
       ELSE doc[CHOOSE i \in S : \A j \in S : j <= i].val

\* readEntry's json.Unmarshal into a LogEntry: a field that is not in the
\* document keeps its zero value
UnmarshalBytes(doc) ==
    LET t == Lookup(doc, NameType)
        k == Lookup(doc, NameKey)
        v == Lookup(doc, NameValue)
        s == Lookup(doc, NameTimestamp)
        c == Lookup(doc, NameChecksum)
        pt == IF t = Nil THEN [err |-> "ok", l |-> <<0>>] ELSE ParseDec(t, 1, TRUE)
        pv == IF v = Nil THEN [err |-> "ok", bs |-> Nil]
              ELSE B64Decode(JSONString(v))
        ps == IF s = Nil THEN [err |-> "ok", l |-> Zeros(4)] ELSE ParseDec(s, 4, TRUE)
        pc32 == IF c = Nil THEN [err |-> "ok", l |-> Zeros(2)] ELSE ParseDec(c, 2, FALSE)
        ok == pt.err = "ok" /\ pv.err = "ok" /\ ps.err = "ok" /\ pc32.err = "ok"
    IN [err |-> IF ok THEN "ok" ELSE "ReadEntry",
        entry |-> [type |-> pt.l[1],
                   key |-> IF k = Nil THEN << >> ELSE JSONString(k),
                   value |-> pv.bs,
                   ts |-> ps.l,
                   checksum |-> pc32.l]]

\* the loop of WAL.Replay over the documents of the file
RECURSIVE ReplayBytes(_, _)
ReplayBytes(d, docs) ==
    IF docs = << >> THEN [err |-> "ok", data |-> d]
    ELSE LET r == UnmarshalBytes(Head(docs)) IN
         IF r.err # "ok" THEN [err |-> "ReadEntry", data |-> d]
         ELSE IF ~verifyChecksum(r.entry) THEN [err |-> "Corruption", data |-> d]
         ELSE LET a == applyEntry(d, r.entry) IN
              IF a.err # "ok" THEN [err |-> a.err, data |-> d]
              ELSE ReplayBytes(a.data, Tail(docs))

\* the logs of a WAL whose calls were LogPut, LogDelete and LogCommit
SumLogs ==
    {[i \in 1..Len(es) |-> MarshalBytes(Marshal(es[i]))] :
        es \in UNION {
            {<<LogEntry(LogEntryPut, KeyA, <<49>>, ts)>>,
             <<LogEntry(LogEntryPut, KeyA, <<49, 50>>, ts),
               LogEntry(LogEntryCommit, EmptyKey, Nil, ts)>>,
             <<LogEntry(LogEntryPut, KeyA, <<49, 50, 51>>, ts),
               LogEntry(LogEntryDelete, KeyA, Nil, ts)>>} : ts \in Timestamps}}

\* g.orig: the file as the WAL wrote it; g.at: the position overwritten
InitSum ==
    /\ kind = "memory"
    /\ up = TRUE
    /\ data = EmptyMap
    /\ closed = FALSE
    /\ snap = NoFile
    /\ tmp = NoFile
    /\ pc = Idle
    /\ wal \in SumLogs
    /\ walFile = TRUE
    /\ walClosed = FALSE
    /\ NoTx
    /\ NoCallers
    /\ res = Res("open", "ok", << >>, Nil)
    /\ g = [orig |-> wal, at |-> << >>]

SumFrame == <<kind, up, closed, snap, tmp, pc, walFile, walClosed, txVars, callerVars>>

\* one byte of the name of field f of record i is overwritten with b
CorruptName(i, f, j, b) ==
    /\ g.at = << >> /\ wal[i][f].name[j] # b
    /\ wal' = [wal EXCEPT ![i][f].name[j] = b]
    /\ g' = [g EXCEPT !.at = <<i, f, "name", j>>]
    /\ res' = Res("corrupt", "ok", << >>, Nil)
    /\ UNCHANGED <<SumFrame, data>>

\* one byte of the value of field f of record i is overwritten with b
CorruptValue(i, f, j, b) ==
    /\ g.at = << >> /\ wal[i][f].val[j] # b
    /\ wal' = [wal EXCEPT ![i][f].val[j] = b]
    /\ g' = [g EXCEPT !.at = <<i, f, "val", j>>]
    /\ res' = Res("corrupt", "ok", << >>, Nil)
    /\ UNCHANGED <<SumFrame, data>>

\* WAL.Replay(NewMemoryEngine())
SumReplay ==
    /\ res.op # "replay"
    /\ LET r == ReplayBytes(EmptyMap, wal) IN
       /\ data' = r.data
       /\ res' = Res("replay", r.err, << >>, Nil)
    /\ UNCHANGED <<SumFrame, wal, g>>

NextSum ==
    \/ \E i \in DOMAIN wal : \E f \in DOMAIN wal[i] :
          \E j \in DOMAIN wal[i][f].name : \E b \in MutBytes : CorruptName(i, f, j, b)
    \/ \E i \in DOMAIN wal : \E f \in DOMAIN wal[i] :
          \E j \in DOMAIN wal[i][f].val : \E b \in MutBytes : CorruptValue(i, f, j, b)
    \/ SumReplay

SpecSum == InitSum /\ [][NextSum]_vars

\* readEntry gives back the LogEntry logEntry wrote
SumRoundTrip ==
    g.at = << >> =>
        \A i \in DOMAIN wal : UnmarshalBytes(wal[i]).err = "ok"

\* C21: checksum integrity. For a WAL file of valid records, overwriting
\* one byte outside the length prefixes with another byte makes Replay
\* return an error instead of succeeding.
C21_ChecksumIntegrity ==
    (g.at # << >> /\ res.op = "replay") => res.err # "ok"

-----------------------------------------------------------------------------
(* Indexes: the B-tree, the hash index and the IndexManager that names them *)

\* a B-tree node; the Parent pointer is written and never read
Node(leaf, keys, values, children) ==
    [nil |-> FALSE, leaf |-> leaf, keys |-> keys, values |-> values,
     children |-> children]

\* a nil *BTreeNode
NoNode == [Node(TRUE, << >>, << >>, << >>) EXCEPT !.nil = TRUE]

\* NewBTree
NewBTree(minDegree) == [root |-> NoNode, minDegree |-> minDegree, size |-> 0]

InsertAt(s, i, x) == SubSeq(s, 1, i - 1) \o <<x>> \o SubSeq(s, i, Len(s))
RemoveAt(s, i) == SubSeq(s, 1, i - 1) \o SubSeq(s, i + 1, Len(s))

\* `for i >= 0 && node.Keys[i] > key { i-- }` from position i (counted
\* from 1): the position the loop stops at, 0 when it runs off the front
RECURSIVE ScanDown(_, _, _)
ScanDown(keys, key, i) ==
    IF i >= 1 /\ LexLess(key, keys[i]) THEN ScanDown(keys, key, i - 1) ELSE i

\* `for i < len(node.Keys) && key > node.Keys[i] { i++ }` from position i
RECURSIVE ScanUp(_, _, _)
ScanUp(keys, key, i) ==
    IF i <= Len(keys) /\ LexLess(keys[i], key) THEN ScanUp(keys, key, i + 1) ELSE i

\* BTree.splitChild on child c of parent (counted from 1): the child's
\* slices are cut to minDegree-1 keys before the median key is read from
\* them, and that read is out of range
splitChild(parent, c, t) ==
    LET child == parent.children[c]
        newNode == Node(child.leaf,
                        SubSeq(child.keys, t + 1, 2 * t - 1),
                        SubSeq(child.values, t + 1, 2 * t - 1),
                        IF child.leaf THEN << >>
                        ELSE SubSeq(child.children, t + 1, 2 * t))
        cut == Node(child.leaf,
                    SubSeq(child.keys, 1, t - 1),
                    SubSeq(child.values, 1, t - 1),
                    IF child.leaf THEN << >> ELSE SubSeq(child.children, 1, t))
        m == Len(parent.keys)
        keys == [j \in 1..(m + 1) |->
                    IF j > c THEN parent.keys[j - 1]
                    ELSE IF j <= m THEN parent.keys[j] ELSE << >>]
        values == [j \in 1..(m + 1) |->
                    IF j > c THEN parent.values[j - 1]
                    ELSE IF j <= m THEN parent.values[j] ELSE Nil]
        children == [j \in 1..(m + 2) |->
                    IF j = c THEN cut
                    ELSE IF j > c + 1 THEN parent.children[j - 1]
                    ELSE IF j <= m + 1 THEN parent.children[j] ELSE NoNode]
    IN IF t - 1 >= Len(cut.keys)
       THEN [panic |-> TRUE, node |-> Node(parent.leaf, keys, values, children)]
       ELSE [panic |-> FALSE,
             node |-> Node(parent.leaf,
                           [keys EXCEPT ![c] = cut.keys[t]],
                           [values EXCEPT ![c] = cut.values[t]],
                           [children EXCEPT ![c + 1] = newNode])]

\* BTree.insertNonFull
RECURSIVE insertNonFull(_, _, _, _)
insertNonFull(node, key, value, t) ==
    LET i == ScanDown(node.keys, key, Len(node.keys)) IN
    IF node.leaf
    THEN [panic |-> FALSE,
          node |-> [node EXCEPT !.keys = InsertAt(@, i + 1, key),
                                !.values = InsertAt(@, i + 1, value)]]
    ELSE LET full == Len(node.children[i + 1].keys) = 2 * t - 1
             s == IF full THEN splitChild(node, i + 1, t)
                  ELSE [panic |-> FALSE, node |-> node]
         IN IF s.panic THEN s
            ELSE LET c == IF full /\ LexLess(s.node.keys[i + 1], key)
                          THEN i + 2 ELSE i + 1
                     r == insertNonFull(s.node.children[c], key, value, t)
                 IN [panic |-> r.panic,
                     node |-> [s.node EXCEPT !.children[c] = r.node]]

\* BTree.Insert
BTreeInsert(bt, key, value) ==
    IF bt.root.nil
    THEN [panic |-> FALSE,
          bt |-> [bt EXCEPT !.root = Node(TRUE, <<key>>, <<value>>, << >>),
                            !.size = 1]]
    ELSE LET full == Len(bt.root.keys) = 2 * bt.minDegree - 1
             s == IF full
                  THEN splitChild(Node(FALSE, << >>, << >>, <<bt.root>>), 1,
                                  bt.minDegree)
                  ELSE [panic |-> FALSE, node |-> bt.root]
         IN IF s.panic
            THEN [panic |-> TRUE, bt |-> [bt EXCEPT !.root = s.node.children[1]]]
            ELSE LET r == insertNonFull(s.node, key, value, bt.minDegree) IN
                 IF r.panic
                 THEN [panic |-> TRUE, bt |-> [bt EXCEPT !.root = r.node]]
                 ELSE [panic |-> FALSE,
                       bt |-> [bt EXCEPT !.root = r.node, !.size = @ + 1]]

\* BTree.searchNode
RECURSIVE searchNode(_, _)
searchNode(node, key) ==
    LET i == ScanUp(node.keys, key, 1) IN
    IF i <= Len(node.keys) /\ key = node.keys[i]
    THEN [found |-> TRUE, val |-> node.values[i]]
    ELSE IF node.leaf THEN [found |-> FALSE, val |-> Nil]
    ELSE searchNode(node.children[i], key)

\* BTree.Search
BTreeSearch(bt, key) ==
    IF bt.root.nil THEN [found |-> FALSE, val |-> Nil]
    ELSE searchNode(bt.root, key)

\* BTree.deleteFromNode on a leaf (deleteFromLeaf); the root of every tree
\* Insert can build is a leaf (BTreeRootIsLeaf), so the descent through an
\* internal node is never taken and is reported as such
deleteFromNode(node, key) ==
    LET i == ScanUp(node.keys, key, 1) IN
    IF i <= Len(node.keys) /\ key = node.keys[i]
    THEN IF node.leaf
         THEN [found |-> TRUE, internal |-> FALSE,
               node |-> [node EXCEPT !.keys = RemoveAt(@, i),
                                     !.values = RemoveAt(@, i)]]
         ELSE [found |-> TRUE, internal |-> TRUE, node |-> node]
    ELSE IF node.leaf THEN [found |-> FALSE, internal |-> FALSE, node |-> node]
    ELSE [found |-> FALSE, internal |-> TRUE, node |-> node]

\* BTree.Delete
BTreeDelete(bt, key) ==
    IF bt.root.nil THEN [found |-> FALSE, bt |-> bt]
    ELSE LET r == deleteFromNode(bt.root, key) IN
         IF r.found
         THEN [found |-> TRUE,
               bt |-> [bt EXCEPT !.size = @ - 1,
                          !.root = IF Len(r.node.keys) = 0 /\ ~r.node.leaf
                                   THEN r.node.children[1] ELSE r.node]]
         ELSE [found |-> FALSE, bt |-> bt]

\* BTree.getAllFromNode: the KeyValue pairs in traversal order
RECURSIVE getAllFromNode(_)
RECURSIVE getAllChildren(_, _)
getAllChildren(node, i) ==
    IF i > Len(node.children) THEN << >>
    ELSE getAllFromNode(node.children[i])
         \o (IF i <= Len(node.keys) THEN <<<<node.keys[i], node.values[i]>>>>
             ELSE << >>)
         \o getAllChildren(node, i + 1)
getAllFromNode(node) ==
    IF node.leaf THEN [i \in 1..Len(node.keys) |-> <<node.keys[i], node.values[i]>>]
    ELSE getAllChildren(node, 1)

\* BTree.GetAll
BTreeGetAll(bt) == IF bt.root.nil THEN << >> ELSE getAllFromNode(bt.root)

\* `for i < len(node.Keys) && node.Keys[i] <= end { append; i++ }` from
\* position i
RECURSIVE TakeUpTo(_, _, _)
TakeUpTo(node, end, i) ==
    IF i <= Len(node.keys) /\ ~LexLess(end, node.keys[i])
    THEN <<<<node.keys[i], node.values[i]>>>> \o TakeUpTo(node, end, i + 1)
    ELSE << >>

\* BTree.rangeFromNode: the keys below start are skipped, the children up
\* to the position reached are visited, the keys up to end are taken, and
\* the children from the position then reached are visited
RECURSIVE rangeFromNode(_, _, _)
RECURSIVE rangeChildren(_, _, _, _, _)
rangeChildren(node, start, end, j, last) ==
    IF j > last THEN << >>
    ELSE rangeFromNode(node.children[j], start, end)
         \o rangeChildren(node, start, end, j + 1, last)
rangeFromNode(node, start, end) ==
    LET i == ScanUp(node.keys, start, 1)
        taken == TakeUpTo(node, end, i)
    IN (IF node.leaf THEN << >> ELSE rangeChildren(node, start, end, 1, i))
       \o taken
       \o (IF node.leaf THEN << >>
           ELSE rangeChildren(node, start, end, i + Len(taken), Len(node.children)))

\* BTree.Range
BTreeRange(bt, start, end) ==
    IF bt.root.nil THEN << >> ELSE rangeFromNode(bt.root, start, end)

\* a xor b on n bits
RECURSIVE XorBits(_, _, _)
XorBits(a, b, n) ==
    IF n = 0 THEN 0
    ELSE (((a % 2) + (b % 2)) % 2) + 2 * XorBits(a \div 2, b \div 2, n - 1)

\* HashIndex.hash: fnv.New32a over the bytes of the key, a uint32 kept as
\* <<high, low>>: h = 0x811C9DC5, then h = (h xor b) * 0x01000193 per byte
RECURSIVE Fnv32a(_, _)
Fnv32a(h, bs) ==
    IF bs = << >> THEN h
    ELSE LET lo == (h[2] \div 256) * 256 + XorBits(h[2] % 256, Head(bs), 8)
             p == lo * 403
             hi == h[1] * 403 + lo * 256 + p \div Half
         IN Fnv32a(<<hi % Half, p % Half>>, Tail(bs))

hash(key) == Fnv32a(<<33052, 40389>>, key)

\* HashIndex.getBucket: int(hi.hash(key)) % len(hi.buckets), the position
\* counted from 1, or 0 when the remainder is negative: where int has 32
\* bits a hash of 2^31 or more converts to a negative int
getBucket(h, n, intBits) ==
    LET u == ((h[1] % n) * (Half % n) + (h[2] % n)) % n
        \* (2^32 - hash) % n
        w == (n - u + (Half % n) * (Half % n)) % n
    IN IF intBits = 32 /\ h[1] >= Half \div 2
       THEN (IF w = 0 THEN 1 ELSE 0)
       ELSE u + 1

\* a bucket: nil until the first Insert into it makes its map
NoBucket == [nil |-> TRUE, m |-> EmptyMap]
Bucket(m) == [nil |-> FALSE, m |-> m]

\* NewHashIndex
NewHashIndex(bucketCount) ==
    [buckets |-> [i \in 1..(IF bucketCount <= 0 THEN 16 ELSE bucketCount) |-> NoBucket],
     size |-> 0]

\* HashIndex.Insert
HashInsert(hi, key, value, intBits) ==
    LET b == getBucket(hash(key), Len(hi.buckets), intBits) IN
    IF b = 0 THEN [panic |-> TRUE, hi |-> hi]
    ELSE LET bucket == hi.buckets[b].m IN
         [panic |-> FALSE,
          hi |-> [buckets |-> [hi.buckets EXCEPT ![b] = Bucket(MapPut(bucket, key, value))],
                  size |-> IF key \in DOMAIN bucket THEN hi.size ELSE hi.size + 1]]

\* HashIndex.Search
HashSearch(hi, key, intBits) ==
    LET b == getBucket(hash(key), Len(hi.buckets), intBits) IN
    IF b = 0 THEN [panic |-> TRUE, found |-> FALSE, val |-> Nil]
    ELSE IF hi.buckets[b].nil \/ key \notin DOMAIN hi.buckets[b].m
    THEN [panic |-> FALSE, found |-> FALSE, val |-> Nil]
    ELSE [panic |-> FALSE, found |-> TRUE, val |-> hi.buckets[b].m[key]]

\* HashIndex.Delete
HashDelete(hi, key, intBits) ==
    LET b == getBucket(hash(key), Len(hi.buckets), intBits) IN
    IF b = 0 THEN [panic |-> TRUE, hi |-> hi]
    ELSE IF hi.buckets[b].nil \/ key \notin DOMAIN hi.buckets[b].m
    THEN [panic |-> FALSE, hi |-> hi]
    ELSE [panic |-> FALSE,
          hi |-> [buckets |-> [hi.buckets EXCEPT ![b] = Bucket(MapDel(@.m, key))],
                  size |-> hi.size - 1]]

\* the orders in which a range over a map can yield its entries
Orders(S) ==
    {o \in [1..Cardinality(S) -> S] :
        \A i, j \in 1..Cardinality(S) : i # j => o[i] # o[j]}

\* HashIndex.GetAll from bucket i on: the results the iteration can give
RECURSIVE HashGetAll(_, _)
HashGetAll(hi, i) ==
    IF i > Len(hi.buckets) THEN {<< >>}
    ELSE LET here == IF hi.buckets[i].nil THEN {<< >>}
                     ELSE Orders(Pairs(hi.buckets[i].m))
         IN {a \o b : a \in here, b \in HashGetAll(hi, i + 1)}

\* IndexEntry
IndexEntry(type, index) == [type |-> type, index |-> index]

\* the names, keys and payloads of the calls explored
IdxA == <<105>>
IdxB == <<106>>
IdxNames == {IdxA, IdxB}
IdxKeys == {<<97>>, <<98>>}
IdxValues == {<<49>>, <<50>>}

\* Index.Insert through the interface
IndexInsert(entry, key, value, intBits) ==
    IF entry.type = "BTREE"
    THEN LET r == BTreeInsert(entry.index, key, value) IN
         [panic |-> r.panic, entry |-> [entry EXCEPT !.index = r.bt]]
    ELSE LET r == HashInsert(entry.index, key, value, intBits) IN
         [panic |-> r.panic, entry |-> [entry EXCEPT !.index = r.hi]]

\* Index.Search through the interface
IndexSearch(entry, key, intBits) ==
    IF entry.type = "BTREE"
    THEN LET r == BTreeSearch(entry.index, key) IN
         [panic |-> FALSE, found |-> r.found, val |-> r.val]
    ELSE HashSearch(entry.index, key, intBits)

\* Index.Delete through the interface
IndexDelete(entry, key, intBits) ==
    IF entry.type = "BTREE"
    THEN [panic |-> FALSE,
          entry |-> [entry EXCEPT !.index = BTreeDelete(@, key).bt]]
    ELSE LET r == HashDelete(entry.index, key, intBits) IN
         [panic |-> r.panic, entry |-> [entry EXCEPT !.index = r.hi]]

\* g.latest: for every name and key, the payload of the last Insert that
\*   returned, Nil before the first one and after a Delete that returned;
\* g.n: the calls that changed or tried to change an index
InitIndex ==
    /\ kind = "memory"
    /\ up = TRUE
    /\ data = EmptyMap
    /\ closed = FALSE
    /\ snap = NoFile
    /\ tmp = NoFile
    /\ pc = Idle
    /\ NoWal
    /\ NoTx
    /\ held = << >> /\ th = << >> /\ mu = [wal |-> 0, tm |-> 0]
    /\ \E b \in {32, 64} : idx = [NoIndexes EXCEPT !.intBits = b]
    /\ res = Res("open", "ok", << >>, Nil)
    /\ g = [latest |-> [n \in IdxNames |-> [k \in IdxKeys |-> Nil]], n |-> 0]

IndexFrame == <<engineVars, pc, walVars, txVars, held, th, mu>>

IndexLive == ~idx.panicked /\ g.n < MaxIdxOps

\* a CreateBTreeIndex that does not look the name up first
CreateBTreeIndexOverwrite(name, minDegree) ==
    /\ IndexLive
    /\ idx' = [idx EXCEPT !.indexes =
                  MapPut(@, name, IndexEntry("BTREE", NewBTree(minDegree)))]
    /\ res' = Res("idx_create", "ok", name, Nil)
    /\ g' = [g EXCEPT !.n = @ + 1]
    /\ UNCHANGED IndexFrame

\* IndexManager.CreateBTreeIndex
CreateBTreeIndex(name, minDegree) ==
    /\ IndexLive
    /\ IF name \in DOMAIN idx.indexes
       THEN /\ res' = Res("idx_create", "IndexExists", name, Nil)
            /\ UNCHANGED idx
       ELSE /\ idx' = [idx EXCEPT !.indexes =
                          MapPut(@, name, IndexEntry("BTREE", NewBTree(minDegree)))]
            /\ res' = Res("idx_create", "ok", name, Nil)
    /\ g' = [g EXCEPT !.n = @ + 1]
    /\ UNCHANGED IndexFrame

\* IndexManager.CreateHashIndex
CreateHashIndex(name, bucketCount) ==
    /\ IndexLive
    /\ IF name \in DOMAIN idx.indexes
       THEN /\ res' = Res("idx_create", "IndexExists", name, Nil)
            /\ UNCHANGED idx
       ELSE /\ idx' = [idx EXCEPT !.indexes =
                          MapPut(@, name, IndexEntry("HASH", NewHashIndex(bucketCount)))]
            /\ res' = Res("idx_create", "ok", name, Nil)
    /\ g' = [g EXCEPT !.n = @ + 1]
    /\ UNCHANGED IndexFrame

\* IndexManager.DropIndex
DropIndex(name) ==
    /\ IndexLive
    /\ IF name \notin DOMAIN idx.indexes
       THEN /\ res' = Res("idx_drop", "IndexNotFound", name, Nil)
            /\ UNCHANGED <<idx, g>>
       ELSE /\ idx' = [idx EXCEPT !.indexes = MapDel(@, name)]
            /\ res' = Res("idx_drop", "ok", name, Nil)
            /\ g' = [g EXCEPT !.n = @ + 1,
                              !.latest[name] = [k \in IdxKeys |-> Nil]]
    /\ UNCHANGED IndexFrame

\* IndexManager.Insert
IMInsert(name, key, value) ==
    /\ IndexLive
    /\ IF name \notin DOMAIN idx.indexes
       THEN /\ res' = Res("idx_insert", "IndexNotFound", key, Nil)
            /\ UNCHANGED <<idx, g>>
       ELSE LET r == IndexInsert(idx.indexes[name], key, value, idx.intBits) IN
            /\ idx' = [idx EXCEPT !.indexes[name] = r.entry, !.panicked = r.panic]
            /\ res' = ResAt("idx_insert", IF r.panic THEN "panic" ELSE "ok", key, value,
                           idx.indexes[name].type)
            /\ g' = [g EXCEPT !.n = @ + 1,
                              !.latest[name][key] = IF r.panic THEN @ ELSE value]
    /\ UNCHANGED IndexFrame

\* IndexManager.Search
IMSearch(name, key) ==
    /\ ~idx.panicked
    /\ IF name \notin DOMAIN idx.indexes
       THEN /\ res' = Res("idx_search", "NotFound", key, Nil)
            /\ UNCHANGED idx
       ELSE LET r == IndexSearch(idx.indexes[name], key, idx.intBits) IN
            /\ idx' = [idx EXCEPT !.panicked = r.panic]
            /\ res' = ResAt("idx_search",
                            IF r.panic THEN "panic"
                            ELSE IF r.found THEN "ok" ELSE "NotFound", key, r.val,
                            idx.indexes[name].type)
    /\ UNCHANGED <<IndexFrame, g>>

\* IndexManager.Delete
IMDelete(name, key) ==
    /\ IndexLive
    /\ IF name \notin DOMAIN idx.indexes
       THEN /\ res' = Res("idx_delete", "IndexNotFound", key, Nil)
            /\ UNCHANGED <<idx, g>>
       ELSE LET r == IndexDelete(idx.indexes[name], key, idx.intBits) IN
            /\ idx' = [idx EXCEPT !.indexes[name] = r.entry, !.panicked = r.panic]
            /\ res' = ResAt("idx_delete", IF r.panic THEN "panic" ELSE "ok", key, Nil,
                           idx.indexes[name].type)
            /\ g' = [g EXCEPT !.n = @ + 1,
                              !.latest[name][key] = IF r.panic THEN @ ELSE Nil]
    /\ UNCHANGED IndexFrame

\* IndexManager.Range
IMRange(name, start, end) ==
    /\ ~idx.panicked
    /\ IF name \notin DOMAIN idx.indexes
       THEN res' = Res("idx_range", "IndexNotFound", <<name, start, end>>, << >>)
       ELSE IF idx.indexes[name].type # "BTREE"
       THEN res' = ResAt("idx_range", "UnsupportedForHash", <<name, start, end>>,
                         << >>, idx.indexes[name].type)
       ELSE res' = ResAt("idx_range", "ok", <<name, start, end>>,
                         BTreeRange(idx.indexes[name].index, start, end), "BTREE")
    /\ UNCHANGED <<IndexFrame, idx, g>>

\* IndexManager.GetAll
IMGetAll(name) ==
    /\ ~idx.panicked
    /\ IF name \notin DOMAIN idx.indexes
       THEN res' = Res("idx_getall", "IndexNotFound", name, << >>)
       ELSE IF idx.indexes[name].type = "BTREE"
       THEN res' = ResAt("idx_getall", "ok", name,
                         BTreeGetAll(idx.indexes[name].index), "BTREE")
       ELSE \E all \in HashGetAll(idx.indexes[name].index, 1) :
               res' = ResAt("idx_getall", "ok", name, all, "HASH")
    /\ UNCHANGED <<IndexFrame, idx, g>>

\* IndexManager.ClearIndex
ClearIndex(name) ==
    /\ IndexLive
    /\ IF name \notin DOMAIN idx.indexes
       THEN /\ res' = Res("idx_clear", "IndexNotFound", name, Nil)
            /\ UNCHANGED <<idx, g>>
       ELSE LET entry == idx.indexes[name] IN
            /\ idx' = [idx EXCEPT !.indexes[name] =
                          IF entry.type = "BTREE"
                          THEN IndexEntry("BTREE", NewBTree(entry.index.minDegree))
                          ELSE IndexEntry("HASH", NewHashIndex(Len(entry.index.buckets)))]
            /\ res' = ResAt("idx_clear", "ok", name, Nil, entry.type)
            /\ g' = [g EXCEPT !.n = @ + 1,
                              !.latest[name] = [k \in IdxKeys |-> Nil]]
    /\ UNCHANGED IndexFrame

NextIndex ==
    \/ CreateBTreeIndex(IdxA, 2)
    \/ \E n \in {0, 3} : CreateHashIndex(IdxA, n)
    \/ \E name \in IdxNames : DropIndex(name)
    \/ \E name \in IdxNames, key \in IdxKeys, value \in IdxValues :
          IMInsert(name, key, value)
    \/ \E name \in IdxNames, key \in IdxKeys : IMSearch(name, key)
    \/ \E name \in IdxNames, key \in IdxKeys : IMDelete(name, key)
    \/ \E name \in IdxNames, start \in IdxKeys, end \in IdxKeys :
          IMRange(name, start, end)
    \/ \E name \in IdxNames : IMGetAll(name)
    \/ \E name \in IdxNames : ClearIndex(name)

SpecIndex == InitIndex /\ [][NextIndex]_vars

\* every B-tree Insert leaves a tree whose root is a leaf
BTreeRootIsLeaf ==
    \A n \in DOMAIN idx.indexes :
        (idx.indexes[n].type = "BTREE" /\ ~idx.indexes[n].index.root.nil)
            => idx.indexes[n].index.root.leaf

\* C22: B-tree ordering. After any sequence of Insert calls on a B-tree,
\* repeated keys included, every Insert has returned and GetAll lists the
\* keys in strictly increasing lexicographic order.
C22_BTreeOrdering ==
    /\ (res.op = "idx_insert" /\ res.stage = "BTREE") => res.err # "panic"
    /\ \A n \in DOMAIN idx.indexes :
          idx.indexes[n].type = "BTREE" =>
              LET all == BTreeGetAll(idx.indexes[n].index) IN
              \A i \in 1..(Len(all) - 1) : LexLess(all[i][1], all[i + 1][1])

\* C23: index point-lookup round trip. For either index type, after an
\* Insert(name, key, payload) Search(name, key) returns the payload of the
\* latest Insert of the key and found, until a Delete(name, key); after the
\* Delete it returns not found.
C23_PointLookup ==
    ~idx.panicked =>
        \A n \in DOMAIN idx.indexes : \A k \in IdxKeys :
            LET r == IndexSearch(idx.indexes[n], k, idx.intBits) IN
            /\ ~r.panic
            /\ r.found = (g.latest[n][k] # Nil)
            /\ r.found => r.val = g.latest[n][k]

\* the entries of index name with a key from start to end, in key order
InRange(name, start, end) ==
    LET ks == SortKeys({k \in IdxKeys : /\ g.latest[name][k] # Nil
                                        /\ ~LexLess(k, start)
                                        /\ ~LexLess(end, k)})
    IN [i \in 1..Len(ks) |-> <<ks[i], g.latest[name][ks[i]]>>]

\* C35: range scan. For a B-tree index Range(name, lo, hi) returns exactly
\* the stored entries whose key satisfies lo <= key <= hi, each exactly once
\* and in increasing key order; for a hash index Range returns the
\* unsupported-for-hash error and no entries.
C35_RangeScan ==
    res.op = "idx_range" =>
        /\ res.stage = "BTREE" =>
              /\ res.err = "ok"
              /\ res.val = InRange(res.k[1], res.k[2], res.k[3])
        /\ res.stage = "HASH" =>
              (res.err = "UnsupportedForHash" /\ res.val = << >>)

\* a call on name that is answered from the registry alone when name is
\* not registered
OnName(name) ==
    \/ \E key \in IdxKeys, value \in IdxValues : IMInsert(name, key, value)
    \/ \E key \in IdxKeys : IMDelete(name, key)
    \/ \E start \in IdxKeys, end \in IdxKeys : IMRange(name, start, end)
    \/ IMGetAll(name)
    \/ DropIndex(name)
    \/ ClearIndex(name)

C37_Step ==
    \A name \in IdxNames :
        /\ (name \in DOMAIN idx.indexes
               /\ (\/ \E t \in {2, 3} : CreateBTreeIndex(name, t)
                   \/ \E n \in {0, 3} : CreateHashIndex(name, n)))
              => (res'.err = "IndexExists" /\ idx' = idx)
        /\ (name \notin DOMAIN idx.indexes /\ OnName(name))
              => (res'.err = "IndexNotFound" /\ idx' = idx)
        /\ (name \in DOMAIN idx.indexes /\ DropIndex(name))
              => (res'.err = "ok" /\ name \notin DOMAIN idx'.indexes)

\* C37: index registry errors. CreateBTreeIndex or CreateHashIndex with a
\* name that is registered fails and leaves the index, its type and its
\* entries as they are; Insert, Delete, Range, GetAll, DropIndex and
\* ClearIndex on a name that is not registered fail with the
\* index-not-found error and change nothing; after DropIndex(name) the name
\* is not registered.
C37_RegistryErrors == [][C37_Step]_vars

\* a second create on a registered name has failed, the index holding an
\* entry
C37_Witness ==
    /\ res.op = "idx_create" /\ res.err = "IndexExists"
    /\ res.k \in DOMAIN idx.indexes
    /\ \E k \in IdxKeys : g.latest[res.k][k] # Nil

-----------------------------------------------------------------------------
(* The commit of one transaction on the WAL-wrapped storage: the manager    *)
(* holds transaction 1, on which the caller has made up to two Put or       *)
(* Delete calls over two keys the engine holds; CommitTransaction is then   *)
(* called on it, again after a failed append or after a commit.             *)

KeyB == <<98>>
\* the keys the transaction stages
CommitKeys == {KeyA, KeyB}
\* the calls made on the transaction before the commit
StageOps == {"put", "delete"} \X CommitKeys

\* one Transaction.Put or Transaction.Delete call on the handle
StageCall(tx, call) ==
    IF call[1] = "put" THEN TxPutResult(tx, call[2], <<51>>).tx
    ELSE TxDeleteResult(tx, call[2]).tx

InitCommit ==
    /\ kind \in {"memory", "disk"}
    /\ up = TRUE
    /\ data = MapPut(MapPut(EmptyMap, KeyA, <<49>>), KeyB, <<50>>)
    /\ closed = FALSE
    /\ snap = IF kind = "disk" THEN MarshalDisk(data) ELSE NoFile
    /\ tmp = NoFile
    /\ pc = Idle
    /\ wal = << >>
    /\ walFile = TRUE
    /\ walClosed = FALSE
    /\ \E a \in StageOps, b \in StageOps : txs = <<StageCall(StageCall(NewTx, a), b)>>
    /\ registry = {1}
    /\ nextID = 1
    /\ NoCallers
    /\ res = ResTx("tx_put", "ok", 1, "")
    /\ g = [hist |-> "other", visible |-> EmptyMap, clean |-> FALSE, o |-> NoOpen,
            aborted |-> {}, unmarked |-> {}, reopened |-> FALSE]

NextCommit ==
    \/ CommitBegin(1)
    \/ \E k \in CommitKeys, ts \in Timestamps, io \in IOOutcomes : CommitLogPut(k, ts, io)
    \/ \E k \in CommitKeys, ts \in Timestamps, io \in IOOutcomes : CommitLogDelete(k, ts, io)
    \/ \E ts \in Timestamps, io \in IOOutcomes : CommitLogCommit(ts, io)
    \/ CommitApply

SpecCommit == InitCommit /\ [][NextCommit]_vars

-----------------------------------------------------------------------------
(* Properties of the commit *)

\* the record the step has appended to the log
Appended == wal'[Len(wal')]

\* the log ends with the records of a whole commit of tx: a Put record for
\* every staged write, after them a Delete record for every staged delete,
\* after them the Commit marker
CommitLogged(tx) ==
    LET ws == GetWriteSet(tx)
        ds == GetDeletedSet(tx)
        n == Cardinality(DOMAIN ws)
        m == Cardinality(ds)
        base == Len(wal) - (n + m + 1)
    IN /\ base >= 0
       /\ wal[Len(wal)].type = LogEntryCommit
       /\ \A k \in DOMAIN ws : \E i \in (base + 1)..(base + n) :
             /\ wal[i].type = LogEntryPut
             /\ wal[i].key = JSONString(k)
             /\ wal[i].value = OmitEmpty(ws[k])
       /\ \A k \in ds : \E i \in (base + n + 1)..(base + n + m) :
             /\ wal[i].type = LogEntryDelete
             /\ wal[i].key = JSONString(k)

C28_Step ==
    /\ (res'.op = "commit" /\ res'.stage = "log") =>
          /\ data' = data /\ snap' = snap /\ txs' = txs /\ registry' = registry
          /\ Len(wal') > Len(wal) =>
                /\ Appended.type = LogEntryPut =>
                      \E k \in DOMAIN pc.puts :
                          /\ Appended.key = JSONString(k)
                          /\ Appended.value = OmitEmpty(pc.puts[k])
                /\ Appended.type = LogEntryDelete =>
                      /\ DOMAIN pc.puts = {}
                      /\ \E k \in pc.dels : Appended.key = JSONString(k)
                /\ Appended.type = LogEntryCommit =>
                      DOMAIN pc.puts = {} /\ pc.dels = {}
    /\ (data' # data \/ snap' # snap
          \/ \E t \in 1..nextID : txs'[t].committed # txs[t].committed) =>
          /\ res'.op = "commit" /\ res'.stage = "apply"
          /\ CommitLogged(txs[pc.t])

C29_Step ==
    (res'.op = "commit" /\ res'.stage = "log" /\ res'.err # "ok") =>
        /\ data' = data /\ snap' = snap
        /\ txs' = txs /\ registry' = registry
        /\ pc'.at = "idle"
        /\ (pc.t \in registry /\ TxState(txs[pc.t]) = "ok") =>
              (pc.t \in registry' /\ TxState(txs'[pc.t]) = "ok")

\* C29: a failed commit leaves the engine untouched. When an append of
\* CommitTransaction(T) fails, of a Put record, of a Delete record or of the
\* Commit marker, the call returns an error, the engine mapping is what it
\* was, and T is not marked committed: it stays active and registered.
C29_FailedCommitLeavesEngine == [][C29_Step]_vars

\* a commit has returned the error of its second append, a staged record of
\* the transaction being in the log already
C29_Witness ==
    /\ res.op = "commit" /\ res.stage = "log" /\ res.err = "IOFailure"
    /\ pc.at = "idle"
    /\ wal # << >> /\ wal[1].type = LogEntryPut
    /\ 1 \in registry /\ TxState(txs[1]) = "ok"
    /\ data = MapPut(MapPut(EmptyMap, KeyA, <<49>>), KeyB, <<50>>)

-----------------------------------------------------------------------------
(* One active transaction used through its handle: Put, Delete, Get and     *)
(* Exists on two keys, in any order.                                        *)

\* the values the caller stages
StageValues == {<<51>>, <<52>>}

\* g.last: for every key, the last Put or Delete that returned, with the
\*   value of the Put; "none" before the first of them
InitStage ==
    /\ kind = "memory"
    /\ up = TRUE
    /\ data = EmptyMap
    /\ closed = FALSE
    /\ snap = NoFile
    /\ tmp = NoFile
    /\ pc = Idle
    /\ NoWal
    /\ txs = <<NewTx>>
    /\ registry = {1}
    /\ nextID = 1
    /\ NoCallers
    /\ res = ResTx("begin", "ok", 1, "")
    /\ g = [last |-> [k \in CommitKeys |-> [op |-> "none", v |-> Nil]]]

StageFrame == <<engineVars, pc, walVars, registry, nextID, callerVars>>

\* Transaction.Put
TransactionPut(key, value) ==
    /\ LET r == TxPutResult(txs[1], key, value) IN
       /\ txs' = [txs EXCEPT ![1] = r.tx]
       /\ res' = [ResTx("tx_put", r.err, 1, "") EXCEPT !.k = key, !.val = value]
       /\ g' = IF r.err = "ok" THEN [g EXCEPT !.last[key] = [op |-> "put", v |-> value]] ELSE g
    /\ UNCHANGED StageFrame

\* Transaction.Delete
TransactionDelete(key) ==
    /\ LET r == TxDeleteResult(txs[1], key) IN
       /\ txs' = [txs EXCEPT ![1] = r.tx]
       /\ res' = [ResTx("tx_delete", r.err, 1, "") EXCEPT !.k = key]
       /\ g' = IF r.err = "ok" THEN [g EXCEPT !.last[key] = [op |-> "delete", v |-> Nil]] ELSE g
    /\ UNCHANGED StageFrame

\* Transaction.Get
TransactionGet(key) ==
    /\ LET r == TxGetResult(txs[1], key) IN
       /\ txs' = [txs EXCEPT ![1] = r.tx]
       /\ res' = [ResTx("tx_get", r.err, 1, "") EXCEPT !.k = key, !.val = r.val]
    /\ UNCHANGED <<StageFrame, g>>

\* Transaction.Exists
TransactionExists(key) ==
    /\ LET r == TxExistsResult(txs[1], key) IN
       /\ txs' = [txs EXCEPT ![1] = r.tx]
       /\ res' = [ResTx("tx_exists", r.err, 1, "") EXCEPT !.k = key, !.val = r.val]
    /\ UNCHANGED <<StageFrame, g>>

NextStage ==
    \/ \E k \in CommitKeys, v \in StageValues : TransactionPut(k, v)
    \/ \E k \in CommitKeys : TransactionDelete(k)
    \/ \E k \in CommitKeys : TransactionGet(k)
    \/ \E k \in CommitKeys : TransactionExists(k)

SpecStage == InitStage /\ [][NextStage]_vars

-----------------------------------------------------------------------------
(* Properties of the transaction handle *)

\* C31: within an active transaction Get(k) reflects the most recent staged
\* operation on k: after Put(k, v) it returns v, also when an earlier value
\* of k was read through Get before, and after Delete(k) it returns
\* KeyNotFound; Get(k) succeeds exactly when Exists(k) is true.
C31_GetReflectsStaged ==
    res.op = "tx_get" =>
        /\ g.last[res.k].op = "put" =>
              (res.err = "ok" /\ res.val = g.last[res.k].v)
        /\ g.last[res.k].op = "delete" => res.err = "KeyNotFound"
        /\ (res.err = "ok") = TxExistsResult(txs[1], res.k).val

-----------------------------------------------------------------------------
(* The append handle of the WAL, under direct writes *)

C33_Step ==
    (res'.op \in {"recover", "checkpoint"} /\ ~walClosed) =>
        /\ walFile'
        /\ \A k \in WalKeys, v \in InValues, ts \in Timestamps :
              (logEntry(LogEntry(LogEntryPut, k, v, ts), "ok").err = "ok")'

\* C33: after Replay or Truncate returns on a WAL that has not been closed,
\* with success or with an error, the WAL holds an open append handle, so a
\* following LogPut, LogDelete or LogCommit can append a record.
C33_AppendHandleKept == [][C33_Step]_vars

-----------------------------------------------------------------------------
(* The bytes of the WAL file at its end: every frame is a 4-byte length     *)
(* and the JSON document; a crash in the middle of an append leaves a part  *)
(* of the last frame.  Here wal holds the whole frames of the file and, of  *)
(* the frame after them, how many bytes of its length and of its document   *)
(* are there.                                                               *)

\* the bytes json.Marshal gives for the fields of doc, each with the brace
\* or comma before it, its quoted name and the colon; the key and the value
\* are strings and carry their quotes
RECURSIVE FieldsSize(_)
FieldsSize(doc) ==
    IF doc = << >> THEN 0
    ELSE 1 + (Len(doc[1].name) + 2) + 1 + Len(doc[1].val)
           + (IF doc[1].name \in {NameKey, NameValue} THEN 2 ELSE 0)
           + FieldsSize(Tail(doc))

\* logEntry: length := uint32(len(data))
EncodedLen(entry) == FieldsSize(MarshalBytes(Marshal(entry))) + 1

\* the file NewWAL creates: no frame, no byte after the frames
NoTail(frames) == [frames |-> frames, len |-> 0, got |-> 0, size |-> 0]

\* the records the callers log
TailEntries ==
    {LogEntry(LogEntryPut, KeyA, <<49>>, ts) : ts \in Timestamps}
        \cup {LogEntry(LogEntryCommit, EmptyKey, Nil, ts) : ts \in Timestamps}

\* readEntry at the end of the whole frames: binary.Read of the length is an
\* io.ReadFull of 4 bytes, then io.ReadFull of the document; io.ReadFull
\* returns io.EOF when it read no byte and io.ErrUnexpectedEOF when it read
\* some but not all
readEntryAtTail(w) ==
    IF w.len = 0 THEN "EOF"
    ELSE IF w.len < 4 THEN "ErrUnexpectedEOF"
    ELSE IF w.size > 0 /\ w.got = 0 THEN "EOF"
    ELSE "ErrUnexpectedEOF"

\* WAL.Replay of the file into engine map d: the loop ends without error
\* when readEntry returns io.EOF
ReplayTail(d, w) ==
    LET a == ReplayLoop(d, w.frames, FALSE) IN
    IF a.err # "ok" THEN a
    ELSE IF readEntryAtTail(w) = "EOF" THEN a
    ELSE [err |-> "ReadEntry", data |-> a.data, wrote |-> a.wrote]

\* g.cut: the bytes <<of the length, of the document>> the crash left
InitTail ==
    /\ kind = "memory"
    /\ up = TRUE
    /\ data = EmptyMap
    /\ closed = FALSE
    /\ snap = NoFile
    /\ tmp = NoFile
    /\ pc = Idle
    /\ wal = NoTail(<< >>)
    /\ walFile = TRUE
    /\ walClosed = FALSE
    /\ NoTx
    /\ NoCallers
    /\ res = Res("open", "ok", << >>, Nil)
    /\ g = [cut |-> << >>]

TailFrame == <<kind, closed, snap, tmp, pc, walClosed, txVars, callerVars>>

\* WAL.logEntry: the length, the document and the sync
TailLog(entry) ==
    /\ up /\ walFile /\ wal.len = 0 /\ Len(wal.frames) < MaxWal
    /\ wal' = NoTail(Append(wal.frames, Marshal(entry)))
    /\ data' = applyEntry(data, entry).data
    /\ res' = Res("log", "ok", entry.key, Nil)
    /\ UNCHANGED <<TailFrame, up, walFile, g>>

\* the process dies in WAL.logEntry, p bytes of the length and d bytes of
\* the document being in the file
TailCrash(entry, p, d) ==
    /\ up /\ walFile /\ wal.len = 0 /\ Len(wal.frames) < MaxWal
    /\ p < 4 => d = 0
    /\ d < EncodedLen(entry)
    /\ wal' = [frames |-> wal.frames, len |-> p, got |-> d,
               size |-> IF p = 0 THEN 0 ELSE EncodedLen(entry)]
    /\ up' = FALSE
    /\ walFile' = FALSE
    /\ data' = EmptyMap
    /\ res' = Res("crash", "ok", entry.key, Nil)
    /\ g' = [g EXCEPT !.cut = <<p, d>>]
    /\ UNCHANGED TailFrame

\* NewWAL on the file and WAL.Replay into a new memory engine
TailReplay ==
    /\ ~up
    /\ LET r == ReplayTail(EmptyMap, wal) IN
       /\ data' = r.data
       /\ walFile' = (r.err = "ok")
       /\ res' = Res("replay", r.err, << >>, Nil)
    /\ up' = TRUE
    /\ UNCHANGED <<TailFrame, wal, g>>

NextTail ==
    \/ \E e \in TailEntries : TailLog(e)
    \/ \E e \in TailEntries, p \in 0..4 : \E d \in 0..(EncodedLen(e) - 1) :
          TailCrash(e, p, d)
    \/ TailReplay

SpecTail == InitTail /\ [][NextTail]_vars

-----------------------------------------------------------------------------
(* Properties of the end of the WAL file *)

\* C32: torn tail. Replay returns success exactly when the log ends at a
\* record boundary, a zero-length file being a valid empty log; when the
\* final frame is truncated, with a partial length prefix or with fewer
\* document bytes than the prefix claims, Replay returns an error.
C32_TornTail ==
    res.op = "replay" => ((res.err = "ok") <=> (wal.len = 0))

-----------------------------------------------------------------------------
(* One B-tree of minimum degree 2 or 3 under Insert of keys it does not     *)
(* hold, Delete and Search, with enough keys to fill its root.              *)

\* six keys of one byte
TreeKeys == {<<97 + i>> : i \in 0..5}

\* the B-tree of the specification
Tree == idx.indexes[IdxA].index

\* g.stored: the keys inserted and not deleted since
InitBTree ==
    /\ kind = "memory"
    /\ up = TRUE
    /\ data = EmptyMap
    /\ closed = FALSE
    /\ snap = NoFile
    /\ tmp = NoFile
    /\ pc = Idle
    /\ NoWal
    /\ NoTx
    /\ held = << >> /\ th = << >> /\ mu = [wal |-> 0, tm |-> 0]
    /\ \E t \in {2, 3} :
          idx = [NoIndexes EXCEPT
                    !.indexes = [n \in {IdxA} |-> IndexEntry("BTREE", NewBTree(t))]]
    /\ res = Res("open", "ok", << >>, Nil)
    /\ g = [stored |-> {}]

\* BTree.Insert of a key the tree does not hold
TreeInsert(key, value) ==
    /\ ~idx.panicked /\ key \notin g.stored
    /\ LET r == BTreeInsert(Tree, key, value) IN
       /\ idx' = [idx EXCEPT !.indexes[IdxA].index = r.bt, !.panicked = r.panic]
       /\ res' = Res("bt_insert", IF r.panic THEN "panic" ELSE "ok", key, value)
       /\ g' = IF r.panic THEN g ELSE [g EXCEPT !.stored = @ \cup {key}]
    /\ UNCHANGED IndexFrame

\* BTree.Delete
TreeDelete(key) ==
    /\ ~idx.panicked
    /\ LET r == BTreeDelete(Tree, key) IN
       /\ idx' = [idx EXCEPT !.indexes[IdxA].index = r.bt]
       /\ res' = Res("bt_delete", IF r.found THEN "ok" ELSE "NotFound", key, Nil)
       /\ g' = [g EXCEPT !.stored = @ \ {key}]
    /\ UNCHANGED IndexFrame

\* BTree.Search
TreeSearch(key) ==
    /\ ~idx.panicked
    /\ LET r == BTreeSearch(Tree, key) IN
       res' = Res("bt_search", IF r.found THEN "ok" ELSE "NotFound", key, r.val)
    /\ UNCHANGED <<IndexFrame, idx, g>>

NextBTree ==
    \/ \E k \in TreeKeys : TreeInsert(k, <<49>>)
    \/ \E k \in TreeKeys : TreeDelete(k)
    \/ \E k \in TreeKeys : TreeSearch(k)

SpecBTree == InitBTree /\ [][NextBTree]_vars

-----------------------------------------------------------------------------
(* Properties of the B-tree *)

\* C34: the B-tree behaves as a map under splits and merges. For a minimum
\* degree t >= 2 and any sequence of Insert of distinct keys and Delete on
\* one B-tree, sequences with more than 2t-1 stored keys included, every
\* call completes without fault, Search(k) finds k exactly when k was
\* inserted and not deleted since, and Size is the number of stored keys.
C34_BTreeIsMap ==
    /\ res.err # "panic"
    /\ \A k \in TreeKeys : BTreeSearch(Tree, k).found <=> k \in g.stored
    /\ Tree.size = Cardinality(g.stored)

-----------------------------------------------------------------------------
(* Goroutines calling Insert, Delete and Search on one index through the    *)
(* IndexManager: the manager's read lock covers the lookup of the name and  *)
(* is released before the index is called; the hash index takes its own     *)
(* mutex, the B-tree has none.  A call on the B-tree is two steps, the test *)
(* of bt.Root against nil and the rest of the method.                       *)

\* mu.hi: the goroutine holding HashIndex.mu for writing (0: nobody);
\* mu.readers: the goroutines holding it for reading
InitIdxConc ==
    /\ kind = "memory"
    /\ up = TRUE
    /\ data = EmptyMap
    /\ closed = FALSE
    /\ snap = NoFile
    /\ tmp = NoFile
    /\ pc = Idle
    /\ NoWal
    /\ NoTx
    /\ held = << >>
    /\ th = [t \in Threads |-> NoThread]
    /\ mu = [wal |-> 0, tm |-> 0, hi |-> 0, readers |-> {}]
    /\ \E e \in {IndexEntry("BTREE", NewBTree(2)), IndexEntry("HASH", NewHashIndex(3))},
          first \in BOOLEAN :
          idx = [NoIndexes EXCEPT !.indexes =
                    [n \in {IdxA} |->
                        IF first THEN IndexInsert(e, <<97>>, <<49>>, 64).entry ELSE e]]
    /\ res = Res("open", "ok", << >>, Nil)
    /\ g = [n |-> 0]

IdxConcFrame == <<engineVars, pc, walVars, txVars, held, g>>

\* the index the goroutines call
Shared == idx.indexes[IdxA]

\* IndexManager.Insert / Delete / Search: the entry is looked up under
\* im.mu.RLock and the lock is released
IdxCall(t, op, key) ==
    /\ th[t].at = "idle" /\ th[t].op = ""
    /\ th' = [th EXCEPT ![t] = [NoThread EXCEPT !.at = "enter", !.op = op,
                                                !.k = key, !.v = <<48 + t>>]]
    /\ res' = ResAt(op, "ok", key, Nil, "lookup")
    /\ UNCHANGED <<IdxConcFrame, idx, mu>>

\* BTree.Insert / Delete / Search: `if bt.Root == nil`
BTreeEnter(t) ==
    /\ th[t].at = "enter" /\ Shared.type = "BTREE"
    /\ th' = [th EXCEPT ![t].at = "inside",
                        ![t].n = IF Shared.index.root.nil THEN 1 ELSE 0]
    /\ res' = ResAt(th[t].op, "ok", th[t].k, Nil, "enter")
    /\ UNCHANGED <<IdxConcFrame, idx, mu>>

\* BTree.Insert / Delete / Search: the rest of the method, on the branch
\* the test chose
BTreeLeave(t) ==
    /\ th[t].at = "inside" /\ Shared.type = "BTREE"
    /\ LET bt == Shared.index
           op == th[t].op
           sawNil == th[t].n = 1
           new == IF op = "insert"
                  THEN IF sawNil
                       THEN [bt EXCEPT !.root = Node(TRUE, <<th[t].k>>, <<th[t].v>>, << >>),
                                       !.size = 1]
                       ELSE BTreeInsert(bt, th[t].k, th[t].v).bt
                  ELSE IF op = "delete" /\ ~sawNil THEN BTreeDelete(bt, th[t].k).bt
                  ELSE bt
           found == IF op = "search" /\ ~sawNil THEN BTreeSearch(bt, th[t].k).found
                    ELSE op = "insert"
       IN /\ idx' = [idx EXCEPT !.indexes[IdxA].index = new]
          /\ th' = [th EXCEPT ![t].at = "done"]
          /\ res' = ResAt(op, IF found THEN "ok" ELSE "NotFound", th[t].k, Nil, "leave")
    /\ UNCHANGED <<IdxConcFrame, mu>>

\* HashIndex.Insert / Delete: hi.mu.Lock(); HashIndex.Search: hi.mu.RLock()
HashMutexFree(t) ==
    IF th[t].op = "search" THEN mu.hi = 0
    ELSE mu.hi = 0 /\ mu.readers = {}

\* HashIndex.Insert / Delete / Search: the lock is taken
HashEnter(t) ==
    /\ th[t].at = "enter" /\ Shared.type = "HASH"
    /\ HashMutexFree(t)
    /\ mu' = IF th[t].op = "search" THEN [mu EXCEPT !.readers = @ \cup {t}]
             ELSE [mu EXCEPT !.hi = t]
    /\ th' = [th EXCEPT ![t].at = "inside"]
    /\ res' = ResAt(th[t].op, "ok", th[t].k, Nil, "enter")
    /\ UNCHANGED <<IdxConcFrame, idx>>

\* HashIndex.Insert / Delete / Search: the body and the deferred unlock
HashLeave(t) ==
    /\ th[t].at = "inside" /\ Shared.type = "HASH"
    /\ LET hi == Shared.index
           op == th[t].op
           new == IF op = "insert" THEN HashInsert(hi, th[t].k, th[t].v, 64).hi
                  ELSE IF op = "delete" THEN HashDelete(hi, th[t].k, 64).hi
                  ELSE hi
           found == IF op = "search" THEN HashSearch(hi, th[t].k, 64).found
                    ELSE op = "insert"
       IN /\ idx' = [idx EXCEPT !.indexes[IdxA].index = new]
          /\ res' = ResAt(op, IF found THEN "ok" ELSE "NotFound", th[t].k, Nil, "leave")
    /\ mu' = [mu EXCEPT !.hi = IF @ = t THEN 0 ELSE @, !.readers = @ \ {t}]
    /\ th' = [th EXCEPT ![t].at = "done"]
    /\ UNCHANGED IdxConcFrame

NextIdxConc ==
    \/ \E t \in Threads, op \in {"insert", "delete", "search"}, key \in IdxKeys :
          IdxCall(t, op, key)
    \/ \E t \in Threads : BTreeEnter(t)
    \/ \E t \in Threads : BTreeLeave(t)
    \/ \E t \in Threads : HashEnter(t)
    \/ \E t \in Threads : HashLeave(t)

SpecIdxConc == InitIdxConc /\ [][NextIdxConc]_vars

-----------------------------------------------------------------------------
(* Properties of concurrent calls on one index *)

\* the goroutines inside a method of the index
Inside == {t \in Threads : th[t].at = "inside"}

\* C36: per-index synchronization. Concurrent Insert, Delete and Search
\* calls on one index through the IndexManager are mutually exclusive on the
\* index's structure, for B-tree as for hash indexes: no two calls mutate
\* the index at the same time, none reads it while another mutates it, and
\* no completed Insert is lost.
C36_PerIndexSync ==
    /\ \A t \in Inside : th[t].op # "search" => Inside = {t}
    /\ \A t \in Threads :
          (/\ th[t].at = "done" /\ th[t].op = "insert"
           /\ \A u \in Threads : th[u].op # "delete")
              => IndexSearch(Shared, th[t].k, 64).found

-----------------------------------------------------------------------------
(* Goroutines calling one memory engine, each one call of Put, Delete, Get  *)
(* or Close.  Put, Delete and Get read m.closed and check their arguments   *)
(* before they take m.mutex; the rest of every method runs under the mutex  *)
(* and is one step.  After Close the map is nil.                            *)

InitMemConc ==
    /\ kind = "memory"
    /\ up = TRUE
    /\ data \in {EmptyMap, MapPut(EmptyMap, KeyA, <<49>>)}
    /\ closed = FALSE
    /\ snap = NoFile
    /\ tmp = NoFile
    /\ pc = Idle
    /\ NoWal
    /\ NoTx
    /\ held = << >>
    /\ th = [t \in Threads |-> NoThread]
    /\ mu = [wal |-> 0, tm |-> 0]
    /\ idx = NoIndexes
    /\ res = Res("open", "ok", << >>, Nil)
    /\ g = [n |-> 0]

MemConcFrame == <<kind, up, snap, tmp, pc, walVars, txVars, held, mu, idx, g>>

\* a goroutine has faulted: the process is gone
Faulted == \E t \in Threads : th[t].err = "panic"

\* the checks made before m.mutex is taken
MemCheck(op, key, value) ==
    IF op = "put" THEN PutCheck(closed, key, value)
    ELSE IF op = "close" THEN "ok"
    ELSE IF closed THEN "StorageClosed"
    ELSE IF key = EmptyKey THEN "InvalidKey"
    ELSE "ok"

\* MemoryEngine.Put / Delete / Get / Close up to the Lock or RLock call
MemCall(t, op, key, value) ==
    /\ ~Faulted /\ th[t].at = "idle" /\ th[t].op = ""
    /\ LET e == MemCheck(op, key, value) IN
       /\ th' = [th EXCEPT ![t] = [NoThread EXCEPT
                    !.at = IF e = "ok" THEN "lock" ELSE "done",
                    !.op = op, !.k = key, !.v = value, !.err = e]]
       /\ res' = ResAt(op, e, key, value, "check")
    /\ UNCHANGED <<MemConcFrame, data, closed>>

\* MemoryEngine.Put under the mutex: the assignment into m.data, which
\* faults when Close has set the map to nil
MemPutLocked(d, cl, key, value) ==
    IF cl THEN [err |-> "panic", data |-> d]
    ELSE [err |-> "ok", data |-> PutApply(d, key, value)]

\* the method from Lock or RLock to the deferred unlock; th[t].n is 1 when
\* the engine was closed by then
MemBody(t) ==
    /\ ~Faulted /\ th[t].at = "lock"
    /\ LET op == th[t].op
           k == th[t].k
           r == IF op = "put" THEN MemPutLocked(data, closed, k, th[t].v)
                ELSE IF op = "delete"
                THEN IF k \in DOMAIN data
                     THEN [err |-> "ok", data |-> DeleteApply(data, k)]
                     ELSE [err |-> "KeyNotFound", data |-> data]
                ELSE IF op = "get"
                THEN [err |-> IF k \in DOMAIN data THEN "ok" ELSE "KeyNotFound",
                      data |-> data]
                ELSE [err |-> "ok", data |-> EmptyMap]
       IN /\ data' = r.data
          /\ closed' = (closed \/ op = "close")
          /\ th' = [th EXCEPT ![t].at = "done", ![t].err = r.err,
                              ![t].n = IF closed THEN 1 ELSE 0]
          /\ res' = ResAt(op, r.err, k, th[t].v, "body")
    /\ UNCHANGED MemConcFrame

NextMemConc ==
    \/ \E t \in Threads, op \in {"put", "delete", "get"}, key \in CommitKeys,
          value \in StageValues : MemCall(t, op, key, value)
    \/ \E t \in Threads : MemCall(t, "close", EmptyKey, Nil)
    \/ \E t \in Threads : MemBody(t)

SpecMemConc == InitMemConc /\ [][NextMemConc]_vars

-----------------------------------------------------------------------------
(* Properties of concurrent calls on the memory engine *)

\* C38: Put racing with Close on the memory engine. In every interleaving
\* of a Put(k, v) with a concurrent Close the Put either stores the value
\* before the engine closes and returns no error, or returns StorageClosed;
\* it never goes on to write into the map after Close has released it.
C38_PutRacingClose ==
    \A t \in Threads :
        (th[t].op = "put" /\ th[t].at = "done") =>
            \/ th[t].err = "ok" /\ th[t].n = 0
            \/ th[t].err = "StorageClosed"

-----------------------------------------------------------------------------
(* Goroutines calling Get, Put and Delete on one active transaction: Get    *)
(* takes tx.mu.RLock, Put and Delete take tx.mu.Lock; the method body runs  *)
(* after the lock is granted and ends with the deferred unlock.             *)

\* mu.txw: the goroutine holding tx.mu for writing (0: nobody);
\* mu.txr: the goroutines holding it for reading
InitTxConc ==
    /\ kind = "memory"
    /\ up = TRUE
    /\ data = EmptyMap
    /\ closed = FALSE
    /\ snap = NoFile
    /\ tmp = NoFile
    /\ pc = Idle
    /\ NoWal
    /\ \E a \in StageOps, b \in StageOps : txs = <<StageCall(StageCall(NewTx, a), b)>>
    /\ registry = {1}
    /\ nextID = 1
    /\ held = << >>
    /\ th = [t \in Threads |-> NoThread]
    /\ mu = [wal |-> 0, tm |-> 0, txw |-> 0, txr |-> {}]
    /\ idx = NoIndexes
    /\ res = ResTx("tx_put", "ok", 1, "")
    /\ g = [n |-> 0]

TxConcFrame == <<engineVars, pc, walVars, registry, nextID, held, idx, g>>

\* a goroutine calls Transaction.Get, Put or Delete
TxCall(t, op, key) ==
    /\ th[t].at = "idle" /\ th[t].op = ""
    /\ th' = [th EXCEPT ![t] = [NoThread EXCEPT !.at = "lock", !.op = op,
                                                !.k = key, !.v = <<52 + t>>]]
    /\ res' = ResTx(op, "ok", 1, "call")
    /\ UNCHANGED <<TxConcFrame, txs, mu>>

\* tx.mu.RLock() in Get, tx.mu.Lock() in Put and Delete: the call returns
TxMutexFree(t) ==
    IF th[t].op = "tx_get" THEN mu.txw = 0
    ELSE mu.txw = 0 /\ mu.txr = {}

\* the lock is granted
TxLock(t) ==
    /\ th[t].at = "lock"
    /\ TxMutexFree(t)
    /\ mu' = IF th[t].op = "tx_get" THEN [mu EXCEPT !.txr = @ \cup {t}]
             ELSE [mu EXCEPT !.txw = t]
    /\ th' = [th EXCEPT ![t].at = "inside"]
    /\ res' = ResTx(th[t].op, "ok", 1, "lock")
    /\ UNCHANGED <<TxConcFrame, txs>>

\* what the body of the call of goroutine t does to the transaction
TxBodyResult(t) ==
    IF th[t].op = "tx_get" THEN TxGetResult(txs[1], th[t].k)
    ELSE IF th[t].op = "tx_put" THEN TxPutResult(txs[1], th[t].k, th[t].v)
    ELSE TxDeleteResult(txs[1], th[t].k)

\* the body of Get, Put or Delete and the deferred unlock
TxBody(t) ==
    /\ th[t].at = "inside"
    /\ LET r == TxBodyResult(t) IN
       /\ txs' = [txs EXCEPT ![1] = r.tx]
       /\ th' = [th EXCEPT ![t].at = "done", ![t].err = r.err]
       /\ res' = ResTx(th[t].op, r.err, 1, "body")
    /\ mu' = [mu EXCEPT !.txw = IF @ = t THEN 0 ELSE @, !.txr = @ \ {t}]
    /\ UNCHANGED TxConcFrame

NextTxConc ==
    \/ \E t \in Threads, op \in {"tx_get", "tx_put", "tx_delete"}, key \in CommitKeys :
          TxCall(t, op, key)
    \/ \E t \in Threads : TxLock(t)
    \/ \E t \in Threads : TxBody(t)

SpecTxConc == InitTxConc /\ [][NextTxConc]_vars

-----------------------------------------------------------------------------
(* Properties of concurrent calls on one transaction *)

\* the goroutines in a method body that writes one of the transaction's sets
Writing == {t \in Threads : th[t].at = "inside" /\ TxBodyResult(t).tx # txs[1]}

\* C39: concurrent reads of one transaction are safe. Transaction.Get
\* modifies the transaction's sets only while holding the transaction's
\* exclusive lock, so two Get calls running concurrently on one active
\* transaction never write read_set at the same time.
C39_ConcurrentGetSafe ==
    /\ \A t \in Writing : mu.txw = t
    /\ Cardinality(Writing) <= 1

-----------------------------------------------------------------------------
(* The disk engine when writing the snapshot can fail: every Put and Delete *)
(* is one step, from its checks to the return of save().                    *)

\* how save() ends: it returns nil, os.WriteFile fails having written a
\* part of the temp file, or os.Rename fails
SaveOutcomes == {"ok", "write_fails", "rename_fails"}

\* DiskEngine.save of map d: the error, the data file and the temp file
save(d, io) ==
    IF closed THEN [err |-> "StorageClosed", snap |-> snap, tmp |-> tmp]
    ELSE IF io = "write_fails"
    THEN [err |-> "IOFailure", snap |-> snap, tmp |-> PartialFile]
    ELSE IF io = "rename_fails"
    THEN [err |-> "IOFailure", snap |-> snap, tmp |-> MarshalDisk(d)]
    ELSE [err |-> "ok", snap |-> MarshalDisk(d), tmp |-> NoFile]

InitDiskFail ==
    /\ kind = "disk"
    /\ up = TRUE
    /\ data = EmptyMap
    /\ closed = FALSE
    /\ snap = NoFile
    /\ tmp = NoFile
    /\ pc = Idle
    /\ NoWal
    /\ NoTx
    /\ NoCallers
    /\ res = Res("open", "ok", << >>, Nil)
    /\ g = [n |-> 0]

DiskFailFrame == <<kind, up, closed, pc, walVars, txVars, callerVars, g>>

\* DiskEngine.Put: the checks, the assignment into d.data, save()
DiskPut(key, value, io) ==
    /\ LET e == PutCheck(closed, key, value)
           s == save(PutApply(data, key, value), io)
       IN IF e # "ok"
          THEN /\ res' = Res("put", e, key, value)
               /\ UNCHANGED <<data, snap, tmp>>
          ELSE /\ data' = PutApply(data, key, value)
               /\ snap' = s.snap
               /\ tmp' = s.tmp
               /\ res' = Res("put", s.err, key, value)
    /\ UNCHANGED DiskFailFrame

\* DiskEngine.Delete: the checks, delete(d.data, key), save()
DiskDelete(key, io) ==
    /\ LET e == DeleteCheck(data, closed, key)
           s == save(DeleteApply(data, key), io)
       IN IF e # "ok"
          THEN /\ res' = Res("delete", e, key, Nil)
               /\ UNCHANGED <<data, snap, tmp>>
          ELSE /\ data' = DeleteApply(data, key)
               /\ snap' = s.snap
               /\ tmp' = s.tmp
               /\ res' = Res("delete", s.err, key, Nil)
    /\ UNCHANGED DiskFailFrame

NextDiskFail ==
    \/ \E k \in CommitKeys, v \in StageValues, io \in SaveOutcomes : DiskPut(k, v, io)
    \/ \E k \in CommitKeys, io \in SaveOutcomes : DiskDelete(k, io)

SpecDiskFail == InitDiskFail /\ [][NextDiskFail]_vars

-----------------------------------------------------------------------------
(* Properties of the disk engine under failing writes *)

C40_Step ==
    (res'.op \in {"put", "delete"} /\ res'.err = "IOFailure") =>
        /\ data' = data
        /\ Get(data', closed', res'.k) = Get(data, closed, res'.k)
        /\ Exists(data', closed', res'.k) = Exists(data, closed, res'.k)

\* C40: the disk engine's state is unchanged on a failed write. When
\* DiskEngine.Put or DiskEngine.Delete returns an error because writing the
\* snapshot failed, the in-memory mapping is what it was before the call, so
\* Get and Exists still report the previous state of the key.
C40_FailedWriteKeepsMap == [][C40_Step]_vars

====
